---- MODULE Spec2Model ----
(***************************************************************************)
(* A model of the CIPS-LANG core of CodeTonight-SA/cips: the Memory store, *)
(* the Interpreter, the Lexer/Parser and the Verifier, each translated     *)
(* from src/lib/cips-lang-*.py.                                            *)
(*                                                                         *)
(* Glyphs are written by their TokenType names, because the module is      *)
(* ASCII: FLOW is the flow glyph, HAS the has-glyph, SEQUENCE the sequence *)
(* glyph, EQUALS the equals glyph, NEXUS the chain glyph, SOL the self     *)
(* glyph, MEM the memory glyph, and so on (GLYPH_MAP, parser lines 90-127).*)
(* The Parfit Key axiom string is written "PARFIT", the River axiom        *)
(* "RIVER".                                                                *)
(*                                                                         *)
(* Python values are tagged records:                                       *)
(*   None [t |-> "none"], bool [t |-> "bool", b], int [t |-> "int", n],    *)
(*   str [t |-> "str", s], list [t |-> "list", items],                     *)
(*   dict [t |-> "dict", entries] with entries a sequence of [key, val]    *)
(*   in insertion order, the Memory object [t |-> "memory"].               *)
(***************************************************************************)
EXTENDS Integers, Sequences, FiniteSets, TLC

VARIABLES
  memory,      \* a Memory object: [data, ttl, max_entries]
  age,         \* seconds since Memory.creation_time (datetime.now() - creation_time)
  memRet,      \* what the last Memory call returned, and what the call was
  interp,      \* an Interpreter object
  program,     \* the Program handed to Interpreter.execute
  outcome,     \* what execute gave its caller: the dict returned, or none when it raised
  verifier,    \* a Verifier object
  report,      \* the VerificationReport of the last Verifier.verify
  source,      \* the source text handed to parse_cips
  parsed,      \* what parse_cips gave its caller
  verified,    \* what verify_cips gave its caller
  executed,    \* what execute_cips gave its caller
  ran,         \* what run_program gave its caller
  memFile,     \* the memory.json file of the project
  hookState,   \* the state file of the enforcement hook
  hookCall,    \* the last hook invocation: its input and the response printed
  proved       \* the result of the last CIPSProver.verify

memVars == <<memory, age, memRet>>
interpVars == <<interp, program, outcome>>
verifyVars == <<verifier, report>>
parseVars == <<source, parsed>>
langVars == <<verified, executed, ran, memFile>>
hookVars == <<hookState, hookCall>>
proverVars == <<proved>>
vars == <<memory, age, memRet, interp, program, outcome, verifier, report, source, parsed,
          verified, executed, ran, memFile, hookState, hookCall, proved>>

(***************************************************************************)
(* Bounds of the model                                                     *)
(***************************************************************************)
MaxEntries == 2      \* largest max_entries a Memory is constructed with
NumKeys == 3         \* number of distinct keys the callers use
MaxAge == 2          \* the clock is followed up to this age
MaxArray == 2        \* longest array literal a generated program loops over
MaxIterations == 3   \* largest max_iterations an Interpreter is given
MaxReads == 3        \* the clock runs out after at most this many reads, or never

KeyNames == <<"k1", "k2", "k3", "k4", "k5">>

PyNone == [t |-> "none"]
PyBool(x) == [t |-> "bool", b |-> x]
PyInt(x) == [t |-> "int", n |-> x]
PyStr(x) == [t |-> "str", s |-> x]
PyList(x) == [t |-> "list", items |-> x]
PyDict(x) == [t |-> "dict", entries |-> x]
MemoryHandle == [t |-> "memory"]

MemKeys == {PyStr(KeyNames[i]) : i \in 1..NumKeys}
MemVals == {PyInt(1), PyInt(2)}
NoTtl == [some |-> FALSE, secs |-> 0]
TtlVals == {NoTtl, [some |-> TRUE, secs |-> 1]}

(***************************************************************************)
(* A Python dict: its entries [key, val] in insertion order, keys unique   *)
(***************************************************************************)
DictHas(d, key) == \E i \in 1..Len(d) : d[i].key = key

DictGet(d, key) == d[CHOOSE i \in 1..Len(d) : d[i].key = key].val

DictSet(d, key, val) ==
  IF DictHas(d, key)
  THEN [i \in 1..Len(d) |-> IF d[i].key = key THEN [key |-> key, val |-> val]
                                              ELSE d[i]]
  ELSE Append(d, [key |-> key, val |-> val])

DictDel(d, key) == SelectSeq(d, LAMBDA e : e.key # key)

DictKeys(d) == [i \in 1..Len(d) |-> d[i].key]

(***************************************************************************)
(* Memory (cips-lang-interpreter.py lines 71-119)                          *)
(***************************************************************************)
Memory(max_entries) == [data |-> <<>>, ttl |-> <<>>, max_entries |-> max_entries]

\* Memory.get: [m |-> the Memory afterwards, ret |-> the value returned];
\* now is (datetime.now() - creation_time).total_seconds()
Memory_get(m, key, now) ==
  IF DictHas(m.data, key)
  THEN IF DictHas(m.ttl, key) /\ DictGet(m.ttl, key).some
          /\ now > DictGet(m.ttl, key).secs
       THEN [m |-> [m EXCEPT !.data = DictDel(m.data, key),
                             !.ttl = DictDel(m.ttl, key)],
             ret |-> PyNone]
       ELSE [m |-> m, ret |-> DictGet(m.data, key)]
  ELSE [m |-> m, ret |-> PyNone]

\* Memory.set with the capacity test dropped
Memory_set_nocap(m, key, value, ttl) ==
  [m |-> [m EXCEPT !.data = DictSet(m.data, key, value),
                   !.ttl = DictSet(m.ttl, key, ttl)],
   ret |-> TRUE]

\* Memory.set
Memory_set(m, key, value, ttl) ==
  IF Len(m.data) >= m.max_entries /\ ~DictHas(m.data, key)
  THEN [m |-> m, ret |-> FALSE]
  ELSE [m |-> [m EXCEPT !.data = DictSet(m.data, key, value),
                        !.ttl = DictSet(m.ttl, key, ttl)],
        ret |-> TRUE]

\* Memory.has
Memory_has(m, key, now) ==
  LET g == Memory_get(m, key, now)
  IN  [m |-> g.m, ret |-> (g.ret # PyNone) \/ DictHas(g.m.data, key)]

\* Memory.delete
Memory_delete(m, key) ==
  IF DictHas(m.data, key)
  THEN [m |-> [m EXCEPT !.data = DictDel(m.data, key),
                        !.ttl = IF DictHas(m.ttl, key) THEN DictDel(m.ttl, key)
                                                        ELSE m.ttl],
        ret |-> TRUE]
  ELSE [m |-> m, ret |-> FALSE]

\* Memory.to_dict
Memory_to_dict(m) == PyDict(m.data)

(***************************************************************************)
(* The Memory store driven by its callers                                  *)
(***************************************************************************)
NoCall == [op |-> "none", key |-> PyNone, before |-> Memory(0), value |-> PyNone,
           ret |-> PyNone]

MemInit ==
  /\ \E M \in 0..MaxEntries : memory = Memory(M)
  /\ age = 0
  /\ memRet = NoCall
  /\ interp = 0 /\ program = 0 /\ outcome = 0 /\ verifier = 0 /\ report = 0
  /\ source = 0 /\ parsed = 0
  /\ verified = 0 /\ executed = 0 /\ ran = 0 /\ memFile = 0 /\ proved = 0
  /\ hookState = 0 /\ hookCall = 0

MemSet ==
  \E k \in MemKeys, v \in MemVals, ttl \in TtlVals :
    LET r == Memory_set(memory, k, v, ttl)
    IN  /\ memory' = r.m
        /\ memRet' = [op |-> "set", key |-> k, before |-> memory, value |-> v,
                      ret |-> PyBool(r.ret)]
        /\ UNCHANGED <<proverVars, hookVars, age, interp, program, outcome, verifier, report, parseVars, langVars>>

MemGet ==
  \E k \in MemKeys :
    LET r == Memory_get(memory, k, age)
    IN  /\ memory' = r.m
        /\ memRet' = [op |-> "get", key |-> k, before |-> memory, value |-> PyNone,
                      ret |-> r.ret]
        /\ UNCHANGED <<proverVars, hookVars, age, interp, program, outcome, verifier, report, parseVars, langVars>>

MemDelete ==
  \E k \in MemKeys :
    LET r == Memory_delete(memory, k)
    IN  /\ memory' = r.m
        /\ memRet' = [op |-> "delete", key |-> k, before |-> memory,
                      value |-> PyNone, ret |-> PyBool(r.ret)]
        /\ UNCHANGED <<proverVars, hookVars, age, interp, program, outcome, verifier, report, parseVars, langVars>>

\* the wall clock moves between calls
MemTick ==
  /\ age < MaxAge
  /\ age' = age + 1
  /\ UNCHANGED <<proverVars, hookVars, memory, memRet, interp, program, outcome, verifier, report, parseVars,
                 langVars>>

MemNext == MemSet \/ MemGet \/ MemDelete \/ MemTick

SpecMem == MemInit /\ [][MemNext]_vars

(***************************************************************************)
(* C3: a Memory created with max_entries = M never stores more than M      *)
(* keys; set of a new key while M keys are stored returns False and leaves *)
(* the store unchanged; set of a key already present returns True and      *)
(* replaces its value, also when the store is full.                        *)
(***************************************************************************)
Stored(m) == Len(m.data)

C3_MemoryCapacity ==
  /\ Stored(memory) <= memory.max_entries
  /\ memRet.op = "set" =>
       LET b == memRet.before
       IN  /\ (Stored(b) >= b.max_entries /\ ~DictHas(b.data, memRet.key))
                => (memRet.ret = PyBool(FALSE) /\ memory = b)
           /\ DictHas(b.data, memRet.key)
                => /\ memRet.ret = PyBool(TRUE)
                   /\ DictHas(memory.data, memRet.key)
                   /\ DictGet(memory.data, memRet.key) = memRet.value
                   /\ DictKeys(memory.data) = DictKeys(b.data)

\* a full store has just refused a new key
C3_Witness ==
  /\ memRet.op = "set"
  /\ memory.max_entries > 0
  /\ Stored(memRet.before) = memory.max_entries
  /\ ~DictHas(memRet.before.data, memRet.key)
  /\ memRet.ret = PyBool(FALSE)
  /\ memory = memRet.before

(***************************************************************************)
(* AST nodes (cips-lang-parser.py lines 313-426) are records tagged by k;  *)
(* every node carries its line.  An absent child (Python None) is NoNode.  *)
(***************************************************************************)
NoNode == [k |-> "None"]
Literal(line, value) == [k |-> "Literal", line |-> line, value |-> value]
Identifier(line, name) == [k |-> "Identifier", line |-> line, name |-> name]
Definition(line, type_name, name, body) ==
  [k |-> "Definition", line |-> line, type_name |-> type_name, name |-> name,
   body |-> body]
Conditional(line, condition, then_branch, else_branch) ==
  [k |-> "Conditional", line |-> line, condition |-> condition,
   then_branch |-> then_branch, else_branch |-> else_branch]
ForEach(line, variable, collection, body) ==
  [k |-> "ForEach", line |-> line, variable |-> variable,
   collection |-> collection, body |-> body]
Sequence(line, statements) ==
  [k |-> "Sequence", line |-> line, statements |-> statements]
FunctionCall(line, name, args) ==
  [k |-> "FunctionCall", line |-> line, name |-> name, args |-> args]
Lambda(line, params, body) ==
  [k |-> "Lambda", line |-> line, params |-> params, body |-> body]
PropertyAccess(line, object, property) ==
  [k |-> "PropertyAccess", line |-> line, object |-> object,
   property |-> property]
BinaryOp(line, left, operator, right) ==
  [k |-> "BinaryOp", line |-> line, left |-> left, operator |-> operator,
   right |-> right]
UnaryOp(line, operator, operand) ==
  [k |-> "UnaryOp", line |-> line, operator |-> operator, operand |-> operand]
ObjectLiteral(line, entries) ==
  [k |-> "ObjectLiteral", line |-> line, entries |-> entries]
ArrayLiteral(line, items) == [k |-> "ArrayLiteral", line |-> line, items |-> items]

\* GenesisBlock; present = FALSE stands for Program.genesis = None
GenesisBlock(line, root, axioms) ==
  [present |-> TRUE, line |-> line, root |-> root, created |-> "",
   lang_created |-> "", author |-> "", axioms |-> axioms, origin |-> <<>>]
NoGenesis ==
  [present |-> FALSE, line |-> 0, root |-> "", created |-> "",
   lang_created |-> "", author |-> "", axioms |-> <<>>, origin |-> <<>>]
Program(genesis, blocks) == [genesis |-> genesis, blocks |-> blocks]

\* A character is a string; a glyph is written $NAME and a Python string is
\* the concatenation of its characters.
PARFIT == "$NOT$EXISTS$BAR$LEADSTO"   \* the Parfit Key axiom string
RIVER == "$FLOW$EQUALS$AQUA"          \* the River axiom string

(***************************************************************************)
(* Runtime values beyond the plain ones: an AST node held as a value, a    *)
(* reference to a Scope, a Python function object, a float.                *)
(***************************************************************************)
PyNode(n) == [t |-> "node", node |-> n]
PyScope(id) == [t |-> "scope", id |-> id]
PyFunc(name) == [t |-> "pyfunc", fn |-> name]
PyFloat(text) == [t |-> "float", text |-> text]
Timestamp == PyStr("<timestamp>")   \* datetime.now().isoformat()

NoErr == [raised |-> FALSE, kind |-> "", msg |-> ""]
Raise(s, kind, msg) ==
  [s EXCEPT !.err = [raised |-> TRUE, kind |-> kind, msg |-> msg]]
Ret(s, v) == [s EXCEPT !.val = v]

Event(ev, line, val, iter, depth) ==
  [ev |-> ev, line |-> line, val |-> val, iter |-> iter, depth |-> depth]
Log(s, ev, line, val) ==
  [s EXCEPT !.trace = Append(@, Event(ev, line, val, s.iteration_count,
                                      s.recursion_depth))]

\* self.memory.set(key, value) in the Interpreter
Store(s, key, value) ==
  LET r == Memory_set(s.memory, key, value, NoTtl)
      t == [s EXCEPT !.memory = r.m, !.val = PyBool(r.ret)]
  IN  IF r.ret THEN Log(t, "store", 0, PyDict(<<[key |-> key, val |-> value]>>))
      ELSE t

Hashable(v) == v.t \notin {"list", "dict"}

\* isinstance(value, dict) and 'name' in value, and the like
IsDict(v) == v.t = "dict"
HasKey(v, name) == DictHas(v.entries, PyStr(name))
GetKey(v, name) == DictGet(v.entries, PyStr(name))

(***************************************************************************)
(* Scope (interpreter lines 122-146).  Scope objects live in s.scopes and  *)
(* are named by their index; parent = 0 is None.                           *)
(***************************************************************************)
Scope(parent) == [variables |-> <<>>, parent |-> parent]

RECURSIVE Scope_has(_, _, _)
Scope_has(scopes, id, name) ==
  IF DictHas(scopes[id].variables, name) THEN TRUE
  ELSE IF scopes[id].parent # 0 THEN Scope_has(scopes, scopes[id].parent, name)
  ELSE FALSE

RECURSIVE Scope_get(_, _, _)
Scope_get(scopes, id, name) ==
  IF DictHas(scopes[id].variables, name) THEN DictGet(scopes[id].variables, name)
  ELSE IF scopes[id].parent # 0 THEN Scope_get(scopes, scopes[id].parent, name)
  ELSE PyNone

Scope_set(scopes, id, name, value) ==
  [scopes EXCEPT ![id].variables = DictSet(@, name, value)]

(***************************************************************************)
(* Interpreter (interpreter lines 149-583).  s is the Interpreter object   *)
(* together with the evaluation in progress: val is the value the last     *)
(* evaluation returned, err the exception in flight.  The wall clock is    *)
(* read by _check_limits and at the end of execute; expiry says how many   *)
(* reads since start_time still see an elapsed time within                 *)
(* max_execution_time (NoExpiry: all of them).                             *)
(* trace is a history of the evaluation that no code reads: the loops      *)
(* entered and left, the loop bodies begun with the item bound, the        *)
(* closure bodies begun and the closure calls returned, and the entries    *)
(* stored into Memory, each with the iteration counter and the recursion   *)
(* depth then.  executes is a history as well: the number of execute       *)
(* calls the Interpreter has served.                                       *)
(***************************************************************************)
NoExpiry == -1

ExecutionLimits(max_iterations, max_recursion, max_memory_entries) ==
  [max_iterations |-> max_iterations, max_recursion |-> max_recursion,
   max_memory_entries |-> max_memory_entries]

Interpreter(limits) ==
  [limits |-> limits,
   memory |-> Memory(limits.max_memory_entries),
   scopes |-> <<Scope(0)>>,
   current_scope |-> 1,
   genesis |-> NoGenesis,
   iteration_count |-> 0,
   recursion_depth |-> 0,
   outputs |-> <<>>,
   logs |-> <<>>,
   reads |-> 0,
   expiry |-> NoExpiry,
   trace |-> <<>>,
   executes |-> 0,
   val |-> PyNone,
   err |-> NoErr]

global_scope == 1

Expired(s) == s.expiry # NoExpiry /\ s.reads > s.expiry

\* _check_limits without the iteration test
check_limits_noiter(s) ==
  IF s.recursion_depth > s.limits.max_recursion
  THEN Raise(s, "RuntimeError", "Recursion limit exceeded")
  ELSE LET r == [s EXCEPT !.reads = @ + 1]
       IN  IF Expired(r) THEN Raise(r, "RuntimeError", "Execution time exceeded")
           ELSE r

\* _check_limits
check_limits(s) ==
  IF s.iteration_count > s.limits.max_iterations
  THEN Raise(s, "RuntimeError", "Iteration limit exceeded")
  ELSE IF s.recursion_depth > s.limits.max_recursion
  THEN Raise(s, "RuntimeError", "Recursion limit exceeded")
  ELSE LET r == [s EXCEPT !.reads = @ + 1]
       IN  IF Expired(r) THEN Raise(r, "RuntimeError", "Execution time exceeded")
           ELSE r

\* _is_truthy
is_truthy(v) ==
  CASE v.t = "none" -> FALSE
    [] v.t = "bool" -> v.b
    [] v.t = "int" -> v.n # 0
    [] v.t = "float" -> v.text \notin {"0.0", "0."}
    [] v.t = "str" -> v.s # ""
    [] v.t = "list" -> Len(v.items) > 0
    [] v.t = "dict" -> Len(v.entries) > 0
    [] OTHER -> TRUE

(***************************************************************************)
(* Python's ==, in, str(), int(), len() on the values of the model.        *)
(* The strings whose characters matter are "" and "ab"; any other string   *)
(* counts as one character.  str() of an int is exact for 0..9.            *)
(***************************************************************************)
RECURSIVE Norm(_)
Norm(v) ==
  CASE v.t = "bool" -> PyInt(IF v.b THEN 1 ELSE 0)
    [] v.t = "list" -> PyList([i \in 1..Len(v.items) |-> Norm(v.items[i])])
    [] v.t = "dict" ->
         PyDict([i \in 1..Len(v.entries) |->
                   [key |-> Norm(v.entries[i].key), val |-> Norm(v.entries[i].val)]])
    [] OTHER -> v

PyEq(a, b) == Norm(a) = Norm(b)

CharsOf(str) ==
  CASE str = "" -> <<>>
    [] str = "ab" -> <<"a", "b">>
    [] OTHER -> <<str>>

IntText == <<"0", "1", "2", "3", "4", "5", "6", "7", "8", "9">>

\* str(n) for n >= 0
RECURSIVE StrOfInt(_)
StrOfInt(n) == IF n < 10 THEN IntText[n + 1] ELSE StrOfInt(n \div 10) \o IntText[(n % 10) + 1]

ToStr(v) ==
  CASE v.t = "str" -> v.s
    [] v.t = "int" -> IF v.n \in 0..9 THEN IntText[v.n + 1] ELSE "<int>"
    [] v.t = "bool" -> IF v.b THEN "True" ELSE "False"
    [] v.t = "none" -> "None"
    [] v.t = "float" -> v.text
    [] OTHER -> "<repr>"

\* int(value), with ValueError and TypeError turned into 0 (_builtin_int)
ToInt(v) ==
  CASE v.t = "int" -> v.n
    [] v.t = "bool" -> IF v.b THEN 1 ELSE 0
    [] v.t = "str" /\ (\E i \in 1..10 : IntText[i] = v.s) ->
         (CHOOSE i \in 1..10 : IntText[i] = v.s) - 1
    [] OTHER -> 0

\* float(value), with ValueError and TypeError turned into 0.0 (_builtin_float)
ToFloat(v) ==
  CASE v.t = "float" -> v
    [] v.t = "int" /\ v.n \in 0..9 -> PyFloat(IntText[v.n + 1])
    [] v.t = "bool" -> PyFloat(IF v.b THEN "1" ELSE "0")
    [] v.t = "str" /\ (\E i \in 1..10 : IntText[i] = v.s) -> PyFloat(v.s)
    [] OTHER -> PyFloat("0.0")

IsIterable(v) == v.t \in {"list", "dict", "str"}

PyLen(v) ==
  CASE v.t = "list" -> Len(v.items)
    [] v.t = "dict" -> Len(v.entries)
    [] v.t = "str" -> Len(CharsOf(v.s))

\* list(collection)
ItemsOf(v) ==
  CASE v.t = "list" -> v.items
    [] v.t = "dict" -> DictKeys(v.entries)
    [] v.t = "str" -> [i \in 1..Len(CharsOf(v.s)) |-> PyStr(CharsOf(v.s)[i])]

\* x in c: [ok |-> FALSE] is a TypeError
PyIn(x, c) ==
  CASE c.t = "list" ->
         [ok |-> TRUE, b |-> \E i \in 1..Len(c.items) : PyEq(x, c.items[i])]
    [] c.t = "dict" ->
         IF Hashable(x)
         THEN [ok |-> TRUE, b |-> \E i \in 1..Len(c.entries) : PyEq(x, c.entries[i].key)]
         ELSE [ok |-> FALSE, b |-> FALSE]
    [] c.t = "str" ->
         IF x.t = "str"
         THEN [ok |-> TRUE,
               b |-> x.s = "" \/ x.s = c.s
                     \/ \E i \in 1..Len(CharsOf(c.s)) : CharsOf(c.s)[i] = x.s]
         ELSE [ok |-> FALSE, b |-> FALSE]

EntityNames == <<"entity_0", "entity_1", "entity_2", "entity_3", "entity_4">>
EntityName(n) == IF n < 5 THEN EntityNames[n + 1] ELSE "entity_n"

builtins == {"emit", "log", "detect", "persist", "load", "spawn", "new", "len",
             "keys", "str", "int", "float", "bool"}

Arity(name) ==
  CASE name = "emit" -> {1, 2}
    [] name = "spawn" -> {2}
    [] name = "new" -> {0, 1}
    [] OTHER -> {1}

\* a Memory object made by new(): it is empty and nothing stores into it
NewMemory(max_entries) == [t |-> "newmemory", max_entries |-> max_entries]

\* self.builtins[name] applied to the arguments (_builtin_emit ... _builtin_bool)
CallBuiltin(s, name, args) ==
  IF Len(args) \notin Arity(name)
  THEN Raise(s, "TypeError", "wrong number of arguments")
  ELSE
  CASE name = "emit" ->
         LET output == PyDict(<<[key |-> PyStr("type"), val |-> PyStr("emit")],
                                [key |-> PyStr("signal"), val |-> args[1]],
                                [key |-> PyStr("data"),
                                 val |-> IF Len(args) = 2 THEN args[2] ELSE PyNone],
                                [key |-> PyStr("timestamp"), val |-> Timestamp]>>)
         IN  [s EXCEPT !.outputs = Append(@, output), !.val = output]
    [] name = "log" ->
         [s EXCEPT !.logs = Append(@, ToStr(args[1])), !.val = PyStr(ToStr(args[1]))]
    [] name = "detect" -> Ret(s, PyBool(FALSE))
    [] name = "persist" ->
         IF IsDict(args[1])
         THEN LET nm == IF HasKey(args[1], "name") THEN GetKey(args[1], "name")
                        ELSE PyStr(EntityName(Len(s.memory.data)))
              IN  IF ~Hashable(nm) THEN Raise(s, "TypeError", "unhashable type")
                  ELSE Store(s, nm, args[1])
         ELSE Ret(s, PyBool(FALSE))
    [] name = "load" ->
         IF ~Hashable(args[1]) THEN Raise(s, "TypeError", "unhashable type")
         ELSE LET r == Memory_get(s.memory, args[1], 0)
              IN  [s EXCEPT !.memory = r.m, !.val = r.ret]
    [] name = "spawn" ->
         LET output == PyDict(<<[key |-> PyStr("type"), val |-> PyStr("spawn_proposal")],
                                [key |-> PyStr("agent"), val |-> args[1]],
                                [key |-> PyStr("task"), val |-> args[2]],
                                [key |-> PyStr("timestamp"), val |-> Timestamp]>>)
         IN  [s EXCEPT !.outputs = Append(@, output), !.val = output]
    [] name = "new" ->
         LET type_name == IF Len(args) = 1 THEN args[1] ELSE PyStr("object")
         IN  IF type_name = PyStr("memory") \/ type_name = PyStr("$MEM")
             THEN Ret(s, NewMemory(10000))
             ELSE Ret(s, PyDict(<<[key |-> PyStr("type"), val |-> type_name]>>))
    [] name = "len" ->
         Ret(s, PyInt(IF IsIterable(args[1]) THEN PyLen(args[1]) ELSE 0))
    [] name = "keys" ->
         Ret(s, PyList(CASE args[1].t = "dict" -> DictKeys(args[1].entries)
                         [] args[1].t = "memory" -> DictKeys(s.memory.data)
                         [] OTHER -> <<>>))
    [] name = "str" -> Ret(s, PyStr(ToStr(args[1])))
    [] name = "int" -> Ret(s, PyInt(ToInt(args[1])))
    [] name = "float" -> Ret(s, ToFloat(args[1]))
    [] name = "bool" -> Ret(s, PyBool(is_truthy(args[1])))

\* GenesisBlock.__dict__ as a dict value
GenesisDict(g) ==
  PyDict(<<[key |-> PyStr("line"), val |-> PyInt(g.line)],
           [key |-> PyStr("root"), val |-> PyStr(g.root)],
           [key |-> PyStr("created"), val |-> PyStr(g.created)],
           [key |-> PyStr("lang_created"), val |-> PyStr(g.lang_created)],
           [key |-> PyStr("author"), val |-> PyStr(g.author)],
           [key |-> PyStr("axioms"),
            val |-> PyList([i \in 1..Len(g.axioms) |-> PyStr(g.axioms[i])])],
           [key |-> PyStr("origin"),
            val |-> PyList([i \in 1..Len(g.origin) |-> PyStr(g.origin[i])])]>>)

\* _resolve_identifier
resolve_identifier(s, node) ==
  LET name == node.name IN
  CASE name = "$SOL" ->
         Ret(s, PyDict(<<[key |-> PyStr("type"), val |-> PyStr("self")],
                         [key |-> PyStr("memory"), val |-> Memory_to_dict(s.memory)]>>))
    [] name = "$MEM" -> Ret(s, MemoryHandle)
    [] name = "$NEXUS" ->
         Ret(s, PyDict(<<[key |-> PyStr("genesis"),
                          val |-> IF s.genesis.present THEN GenesisDict(s.genesis)
                                                       ELSE PyNone]>>))
    [] name = "$NOW" -> Ret(s, Timestamp)
    [] name = "$VERIFY" -> Ret(s, PyBool(TRUE))
    [] name = "$ERROR" -> Ret(s, PyBool(FALSE))
    [] OTHER ->
         IF Scope_has(s.scopes, s.current_scope, name)
         THEN Ret(s, Scope_get(s.scopes, s.current_scope, name))
         ELSE LET h == Memory_has(s.memory, PyStr(name), 0) IN
              IF h.ret
              THEN LET g == Memory_get(h.m, PyStr(name), 0)
                   IN  [s EXCEPT !.memory = g.m, !.val = g.ret]
              ELSE [s EXCEPT !.memory = h.m, !.val = PyNone]

\* the attributes hasattr() finds on a value that is neither dict nor Memory:
\* the model knows these methods, each taking no argument
PyMethods(v) ==
  CASE v.t = "str" -> {"upper", "lower"}
    [] v.t = "list" -> {"copy"}
    [] OTHER -> {}

RECURSIVE Evaluate(_, _), EvalAll(_, _, _), EvalEntries(_, _, _),
          ForEachItems(_, _, _, _), BindParams(_, _, _, _), call_lambda(_, _, _)

\* [self._evaluate(n) for n in nodes]: the values, as a list, in val
EvalAll(s, nodes, acc) ==
  IF nodes = <<>> THEN Ret(s, PyList(acc))
  ELSE LET r == Evaluate(Head(nodes), s)
       IN  IF r.err.raised THEN r
           ELSE EvalAll(r, Tail(nodes), Append(acc, r.val))

\* _eval_object
EvalEntries(s, entries, acc) ==
  IF entries = <<>> THEN Ret(s, PyDict(acc))
  ELSE LET r == Evaluate(Head(entries).val, s)
       IN  IF r.err.raised THEN r
           ELSE EvalEntries(r, Tail(entries),
                            DictSet(acc, PyStr(Head(entries).key), r.val))

PushScope(s) ==
  [s EXCEPT !.scopes = Append(@, Scope(s.current_scope)),
            !.current_scope = Len(s.scopes) + 1]

\* the for statement of _eval_foreach (lines 357-361)
ForEachItems(s, node, items, result) ==
  IF items = <<>> THEN Ret(s, result)
  ELSE LET s1 == [s EXCEPT !.iteration_count = @ + 1]
           s2 == check_limits(s1)
       IN  IF s2.err.raised THEN s2
           ELSE LET s3 == [s2 EXCEPT !.scopes = Scope_set(s2.scopes, s2.current_scope,
                                                          node.variable, Head(items))]
                    s4 == Evaluate(node.body, Log(s3, "body", node.line, Head(items)))
                IN  IF s4.err.raised THEN s4
                    ELSE ForEachItems(s4, node, Tail(items), s4.val)

\* what the trace keeps of the Interpreter when a ForEach has its items
LoopState(c) ==
  [items |-> ItemsOf(c.val), outputs |-> c.outputs, logs |-> c.logs,
   memory |-> c.memory, scopes |-> c.scopes, current_scope |-> c.current_scope]

\* lines 348-364 of _eval_foreach without the size test of lines 349-351
ForEachOver_nosize(c, node, old_scope) ==
  LET r == ForEachItems(PushScope(Log(c, "enter", node.line, c.val)), node,
                        ItemsOf(c.val), PyNone)
  IN  IF r.err.raised THEN r
      ELSE Log([r EXCEPT !.current_scope = old_scope], "exit", node.line, PyNone)

\* lines 348-364 of _eval_foreach: c has the items of the collection
ForEachOver(c, node, old_scope) ==
  IF Len(ItemsOf(c.val)) > c.limits.max_iterations
  THEN Raise(c, "RuntimeError", "Collection too large")
  ELSE LET r == ForEachItems(PushScope(Log(c, "enter", node.line, c.val)), node,
                             ItemsOf(c.val), PyNone)
       IN  IF r.err.raised THEN r
           ELSE Log([r EXCEPT !.current_scope = old_scope], "exit", node.line, PyNone)

\* _eval_foreach leaving out the last item
eval_foreach_short(s, node) ==
  LET c == Evaluate(node.collection, s) IN
  IF c.err.raised THEN c
  ELSE IF ~IsIterable(c.val) THEN Raise(c, "RuntimeError", "Cannot iterate")
  ELSE IF Len(ItemsOf(c.val)) > c.limits.max_iterations
  THEN Raise(c, "RuntimeError", "Collection too large")
  ELSE LET old_scope == c.current_scope
           items == ItemsOf(c.val)
           r == ForEachItems(PushScope(Log(c, "enter", node.line, c.val)), node,
                             IF items = <<>> THEN items
                             ELSE SubSeq(items, 1, Len(items) - 1), PyNone)
       IN  IF r.err.raised THEN r
           ELSE Log([r EXCEPT !.current_scope = old_scope], "exit", node.line, PyNone)

\* _eval_foreach
eval_foreach(s, node) ==
  LET c == Evaluate(node.collection, s) IN
  IF c.err.raised THEN c
  ELSE IF ~IsIterable(c.val) THEN Raise(c, "RuntimeError", "Cannot iterate")
  ELSE ForEachOver(Log(c, "loop", node.line, LoopState(c)), node, c.current_scope)

\* the argument binding of _call_lambda (lines 405-409)
BindParams(s, params, args, i) ==
  IF i > Len(params) THEN s
  ELSE IF i <= Len(args)
  THEN LET r == Evaluate(args[i], s)
       IN  IF r.err.raised THEN r
           ELSE BindParams([r EXCEPT !.scopes = Scope_set(r.scopes, r.current_scope,
                                                           params[i], r.val)],
                           params, args, i + 1)
  ELSE BindParams([s EXCEPT !.scopes = Scope_set(s.scopes, s.current_scope,
                                                  params[i], PyNone)],
                  params, args, i + 1)

\* _call_lambda without the limit check of line 399
call_lambda_nocheck(s, lam, args) ==
  LET s2 == [s EXCEPT !.recursion_depth = @ + 1]
      old_scope == s2.current_scope
      s3 == PushScope(s2)
  IN  IF ~(lam.t = "node" /\ lam.node.k = "Lambda")
      THEN Raise(s3, "AttributeError", "no attribute 'params'")
      ELSE LET s4 == BindParams(s3, lam.node.params, args, 1) IN
           IF s4.err.raised THEN s4
           ELSE LET s5 == Evaluate(lam.node.body,
                                   Log(s4, "call", lam.node.line, PyNone)) IN
                IF s5.err.raised THEN s5
                ELSE Log([s5 EXCEPT !.current_scope = old_scope,
                                    !.recursion_depth = @ - 1],
                         "return", lam.node.line, s5.val)

\* _call_lambda
call_lambda(s, lam, args) ==
  LET s1 == [s EXCEPT !.recursion_depth = @ + 1]
      s2 == check_limits(s1)
  IN  IF s2.err.raised THEN s2
      ELSE LET old_scope == s2.current_scope
               s3 == PushScope(s2)
           IN  IF ~(lam.t = "node" /\ lam.node.k = "Lambda")
               THEN Raise(s3, "AttributeError", "no attribute 'params'")
               ELSE LET s4 == BindParams(s3, lam.node.params, args, 1) IN
                    IF s4.err.raised THEN s4
                    ELSE LET s5 == Evaluate(lam.node.body,
                                            Log(s4, "call", lam.node.line, PyNone)) IN
                         IF s5.err.raised THEN s5
                         ELSE Log([s5 EXCEPT !.current_scope = old_scope,
                                             !.recursion_depth = @ - 1],
                                  "return", lam.node.line, s5.val)

\* _eval_function_call
eval_function_call(s, node) ==
  IF node.name \in builtins
  THEN LET a == EvalAll(s, node.args, <<>>)
       IN  IF a.err.raised THEN a ELSE CallBuiltin(a, node.name, a.val.items)
  ELSE LET func == Scope_get(s.scopes, s.current_scope, node.name)
       IN  IF is_truthy(func) /\ IsDict(func) /\ HasKey(func, "lambda")
           THEN call_lambda(s, GetKey(func, "lambda"), node.args)
           ELSE Raise(s, "RuntimeError", "Unknown function")

\* _eval_definition
eval_definition(s, node) ==
  LET r == Evaluate(node.body, s) IN
  IF r.err.raised THEN r
  ELSE [r EXCEPT !.scopes =
          Scope_set(r.scopes, r.current_scope, node.name,
                    PyDict(<<[key |-> PyStr("type"), val |-> PyStr(node.type_name)],
                             [key |-> PyStr("name"), val |-> PyStr(node.name)],
                             [key |-> PyStr("value"), val |-> r.val]>>))]

\* _eval_conditional
eval_conditional(s, node) ==
  LET c == Evaluate(node.condition, s) IN
  IF c.err.raised THEN c
  ELSE IF is_truthy(c.val) THEN Evaluate(node.then_branch, c)
  ELSE IF node.else_branch # NoNode THEN Evaluate(node.else_branch, c)
  ELSE Ret(c, PyNone)

\* _eval_sequence
eval_sequence(s, node) ==
  LET r == EvalAll(s, node.statements, <<>>) IN
  IF r.err.raised THEN r
  ELSE Ret(r, IF r.val.items = <<>> THEN PyNone
              ELSE r.val.items[Len(r.val.items)])

\* _eval_lambda
eval_lambda(s, node) ==
  Ret(s, PyDict(<<[key |-> PyStr("lambda"), val |-> PyNode(node)],
                  [key |-> PyStr("scope"), val |-> PyScope(s.current_scope)]>>))

\* _eval_property_access
eval_property_access(s, node) ==
  LET r == Evaluate(node.object, s) IN
  IF r.err.raised THEN r
  ELSE LET obj == r.val
           prop == node.property
       IN  CASE obj.t = "dict" ->
                  Ret(r, IF HasKey(obj, prop) THEN GetKey(obj, prop) ELSE PyNone)
             [] obj.t = "memory" ->
                  IF prop = "new" THEN Ret(r, PyFunc("memory_new"))
                  ELSE LET g == Memory_get(r.memory, PyStr(prop), 0)
                       IN  [r EXCEPT !.memory = g.m, !.val = g.ret]
             [] obj.t = "newmemory" ->
                  Ret(r, IF prop = "new" THEN PyFunc("memory_new") ELSE PyNone)
             [] OTHER ->
                  Ret(r, IF prop \in PyMethods(obj) THEN PyFunc(prop) ELSE PyNone)

\* _eval_binary_op
eval_binary_op(s, node) ==
  LET l == Evaluate(node.left, s) IN
  IF l.err.raised THEN l ELSE
  LET r == Evaluate(node.right, l) IN
  IF r.err.raised THEN r ELSE
  LET left == l.val
      right == r.val
      op == node.operator
  IN  CASE op = "$EQUALS" -> Ret(r, PyBool(PyEq(left, right)))
        [] op = "$FLOW" ->
             \* callable(right): only Python functions are; each of those the
             \* model knows refuses a positional argument
             IF right.t = "pyfunc"
             THEN Raise(r, "TypeError", "takes 0 positional arguments")
             ELSE Ret(r, right)
        [] op = "$CONTAINS" ->
             IF IsIterable(left)
             THEN IF PyIn(right, left).ok THEN Ret(r, PyBool(PyIn(right, left).b))
                  ELSE Raise(r, "TypeError", "in")
             ELSE Ret(r, PyBool(FALSE))
        [] op = "$HAS" ->
             IF IsIterable(right)
             THEN IF PyIn(left, right).ok THEN Ret(r, PyBool(PyIn(left, right).b))
                  ELSE Raise(r, "TypeError", "in")
             ELSE Ret(r, PyBool(FALSE))
        [] op = "$SEQUENCE" -> Ret(r, right)
        [] OTHER -> Ret(r, PyNone)

\* _eval_unary_op
eval_unary_op(s, node) ==
  LET r == Evaluate(node.operand, s) IN
  IF r.err.raised THEN r ELSE
  LET operand == r.val IN
  CASE node.operator = "$NOT" -> Ret(r, PyBool(~is_truthy(operand)))
    [] node.operator = "$PERSIST" ->
         IF IsDict(operand) /\ HasKey(operand, "name")
         THEN IF ~Hashable(GetKey(operand, "name"))
              THEN Raise(r, "TypeError", "unhashable type")
              ELSE Ret(Store(r, GetKey(operand, "name"), operand), operand)
         ELSE Ret(r, operand)
    [] OTHER -> Ret(r, operand)

\* _evaluate; an Interpreter that already carries an exception is handed on
Evaluate(node, s) ==
  IF s.err.raised THEN s ELSE
  LET c == check_limits(s) IN
  IF c.err.raised THEN c ELSE
  CASE node.k = "Literal" -> Ret(c, node.value)
    [] node.k = "Identifier" -> resolve_identifier(c, node)
    [] node.k = "Definition" -> eval_definition(c, node)
    [] node.k = "Conditional" -> eval_conditional(c, node)
    [] node.k = "ForEach" -> eval_foreach(c, node)
    [] node.k = "Sequence" -> eval_sequence(c, node)
    [] node.k = "FunctionCall" -> eval_function_call(c, node)
    [] node.k = "Lambda" -> eval_lambda(c, node)
    [] node.k = "PropertyAccess" -> eval_property_access(c, node)
    [] node.k = "BinaryOp" -> eval_binary_op(c, node)
    [] node.k = "UnaryOp" -> eval_unary_op(c, node)
    [] node.k = "ObjectLiteral" -> EvalEntries(c, node.entries, <<>>)
    [] node.k = "ArrayLiteral" -> EvalAll(c, node.items, <<>>)
    [] OTHER -> Ret(c, PyNone)

\* _validate_genesis
validate_genesis(s, genesis) ==
  IF genesis.root = "" THEN Raise(s, "RuntimeError", "Genesis block missing root")
  ELSE IF ~(\E i \in 1..Len(genesis.axioms) : genesis.axioms[i] = PARFIT)
  THEN Raise(s, "RuntimeError", "Genesis block missing Parfit Key axiom")
  ELSE s

\* the loop over program.blocks in execute (lines 213-215)
RECURSIVE ExecuteBlocks(_, _)
ExecuteBlocks(s, blocks) ==
  IF s.err.raised \/ blocks = <<>> THEN s
  ELSE ExecuteBlocks(Evaluate(Head(blocks), check_limits(s)), Tail(blocks))

NoResult == [returned |-> FALSE]

\* lines 200-210 of execute: the counters reset, the genesis block validated
ExecuteStart(self, prog, expiry) ==
  LET s0 == [self EXCEPT !.reads = 0, !.expiry = expiry, !.iteration_count = 0,
                         !.recursion_depth = 0, !.outputs = <<>>, !.logs = <<>>,
                         !.trace = <<>>, !.executes = @ + 1,
                         !.val = PyNone, !.err = NoErr]
      v == validate_genesis(s0, prog.genesis)
  IN  IF ~prog.genesis.present THEN s0
      ELSE IF v.err.raised THEN v
      ELSE [v EXCEPT !.genesis = prog.genesis]

\* the dict of lines 219-227, s3 being the Interpreter after the clock is read
\* for elapsed_seconds
ExecuteDict(s3) ==
  [s |-> s3,
   ret |-> [returned |-> TRUE,
            result |-> s3.val,
            outputs |-> s3.outputs,
            logs |-> s3.logs,
            memory |-> Memory_to_dict(s3.memory),
            iterations |-> s3.iteration_count,
            elapsed_over_limit |-> Expired(s3),
            genesis_valid |-> s3.genesis.present]]

\* lines 217-227 on the Interpreter after the loop over the blocks
ExecuteReturn(s2) ==
  IF s2.err.raised THEN [s |-> s2, ret |-> NoResult]
  ELSE ExecuteDict([s2 EXCEPT !.reads = @ + 1])

\* Interpreter.execute.  self is the Interpreter before the call; the answer
\* is the Interpreter afterwards, with err the exception raised, if any, and
\* ret the dict returned to the caller otherwise.
execute(self, prog, expiry) ==
  ExecuteReturn(ExecuteBlocks(ExecuteStart(self, prog, expiry), prog.blocks))

(***************************************************************************)
(* The Programs the Interpreter is run on: one or two top-level blocks,    *)
(* the block at position i on line 10*i, a loop nested in it on line       *)
(* 10*i + 1.                                                               *)
(***************************************************************************)
IntLit(n) == Literal(0, PyInt(n))
StrLit(str) == Literal(0, PyStr(str))
ArrayOf(n) == ArrayLiteral(0, [i \in 1..n |-> IntLit(i)])

EmitTick(var) == FunctionCall(0, "emit", <<StrLit("tick"), Identifier(0, var)>>)
PersistVar(var) ==
  FunctionCall(0, "persist", <<ObjectLiteral(0, <<[key |-> "name", val |-> Identifier(0, var)]>>)>>)

\* a closure that calls its argument with itself, bound to a loop variable
\* and called with itself
SelfApply(line) ==
  ForEach(line, "f",
          ArrayLiteral(0, <<Lambda(0, <<"g">>,
                                   FunctionCall(0, "g", <<Identifier(0, "g")>>))>>),
          FunctionCall(0, "f", <<Identifier(0, "f")>>))

\* a closure bound to the loop variable f and called with one argument
ApplyClosure(line, body, arg) ==
  ForEach(line, "f", ArrayLiteral(0, <<Lambda(line + 2, <<"g">>, body)>>),
          FunctionCall(0, "f", <<arg>>))

UnknownCall == FunctionCall(0, "nofn", <<>>)

\* a closure without parameters that calls itself through the loop variable
SelfCall(line) ==
  ForEach(line, "f",
          ArrayLiteral(0, <<Lambda(line + 2, <<>>, FunctionCall(0, "f", <<>>))>>),
          FunctionCall(0, "f", <<>>))

\* a Definition whose body is a Lambda, and a call of the name it binds
DefineClosure(line) ==
  Definition(line, "", "h", Lambda(line + 2, <<"x">>, Identifier(0, "x")))
CallDefined(line) == FunctionCall(line, "h", <<IntLit(7)>>)

\* 5 piped into a Lambda that returns its argument
Pipe(line) ==
  BinaryOp(line, IntLit(5), "$FLOW", Lambda(line + 2, <<"x">>, Identifier(0, "x")))

\* a Conditional whose condition and branches each leave a line in logs;
\* log returns the text it logged, so the condition is truthy iff text # ""
LogText(text) == FunctionCall(0, "log", <<StrLit(text)>>)
Cond(line, text, else_branch) ==
  Conditional(line, LogText(text), EmitTick("then"), else_branch)

\* a loop whose body defines y when y is not resolvable and emits it when it is
LoopDefine(line, n) ==
  ForEach(line, "x", ArrayOf(n),
          Conditional(0, Identifier(0, "y"), EmitTick("y"),
                      Definition(0, "", "y", Identifier(0, "x"))))
EmitAfter(line, var) ==
  FunctionCall(line, "emit", <<StrLit("after"), Identifier(0, var)>>)

ClosureBlocks(line) ==
  {ApplyClosure(line, EmitTick("g"), IntLit(1)),
   ApplyClosure(line, UnknownCall, IntLit(1)),
   ApplyClosure(line, EmitTick("g"), UnknownCall),
   SelfCall(line), DefineClosure(line), CallDefined(line), Pipe(line),
   Cond(line, "", EmitTick("else")), Cond(line, "c", EmitTick("else")),
   Cond(line, "", NoNode),
   LoopDefine(line, MaxArray), EmitAfter(line, "y"), EmitAfter(line, "x")}

BlocksAt(line) ==
  ClosureBlocks(line) \cup
  {IntLit(7),
   FunctionCall(line, "emit", <<StrLit("start")>>),
   FunctionCall(line, "log", <<StrLit("hello")>>),
   FunctionCall(line, "persist",
                <<ObjectLiteral(0, <<[key |-> "name", val |-> StrLit("k1")],
                                     [key |-> "v", val |-> IntLit(line)]>>)>>),
   FunctionCall(line, "nofn", <<>>),
   ForEach(line, "x", IntLit(5), EmitTick("x")),
   SelfApply(line)}
  \cup {ForEach(line, "x", ArrayOf(n), b) :
          n \in 0..MaxArray, b \in {EmitTick("x"), PersistVar("x")}}
  \cup {ForEach(line, "x", ArrayOf(n), ForEach(line + 1, "y", ArrayOf(m), EmitTick("y"))) :
          n \in 1..MaxArray, m \in 1..MaxArray}

ValidGenesis == GenesisBlock(1, "abc", <<PARFIT>>)

\* a name defined, then looked up or looped over
DefineLiteral(value) == Definition(10, "", "n", Literal(0, value))
DefineList(n) == Definition(10, "", "xs", ArrayOf(n))
LoopOver(name) == ForEach(20, "x", Identifier(0, name), EmitTick("x"))

LookupPrograms ==
  {Program(NoGenesis, <<DefineLiteral(v), Identifier(20, "n")>>) :
     v \in {PyInt(7), PyStr("a"), PyNone}}
  \cup {Program(NoGenesis, <<DefineList(n), LoopOver("xs")>>) : n \in 0..MaxArray}

\* a closure made where x is not bound and called where x is bound to 1
FreeIdentifier ==
  ForEach(10, "f", ArrayLiteral(0, <<Lambda(12, <<>>, EmitTick("x"))>>),
          ForEach(11, "x", ArrayOf(1), FunctionCall(0, "f", <<>>)))

\* a closure with the parameters a and b called with 1 and the caller's a
ArgumentOfCaller ==
  ForEach(10, "f", ArrayLiteral(0, <<Lambda(12, <<"a", "b">>, EmitTick("b"))>>),
          FunctionCall(0, "f", <<IntLit(1), Identifier(0, "a")>>))

ScopingPrograms ==
  {Program(g, <<b>>) : g \in {NoGenesis, ValidGenesis},
                       b \in {FreeIdentifier, ArgumentOfCaller}}

Programs ==
  {Program(g, <<b>>) : g \in {NoGenesis, ValidGenesis}, b \in BlocksAt(10)}
  \cup {Program(NoGenesis, <<b1, b2>>) : b1 \in BlocksAt(10), b2 \in BlocksAt(20)}
  \cup LookupPrograms \cup ScopingPrograms

Expiries == {NoExpiry} \cup 0..MaxReads

NoProgram == Program(NoGenesis, <<>>)
NotCalled == [returned |-> FALSE, called |-> FALSE]

InterpInit ==
  /\ \E mi \in 1..MaxIterations :
       interp = Interpreter(ExecutionLimits(mi, 2, MaxEntries))
  /\ program = NoProgram
  /\ outcome = NotCalled
  /\ memory = 0 /\ age = 0 /\ memRet = 0 /\ verifier = 0 /\ report = 0
  /\ source = 0 /\ parsed = 0
  /\ verified = 0 /\ executed = 0 /\ ran = 0 /\ memFile = 0 /\ proved = 0
  /\ hookState = 0 /\ hookCall = 0

\* a caller runs interpreter.execute(program)
\* the Interpreter and the caller after execute(p) gave r
Executes(p, r) ==
  /\ interp' = r.s
  /\ program' = p
  /\ outcome' = r.ret

Execute ==
  /\ outcome = NotCalled
  /\ \E p \in Programs, e \in Expiries : Executes(p, execute(interp, p, e))
  /\ UNCHANGED <<proverVars, hookVars, memVars, verifyVars, parseVars, langVars>>

InterpNext == Execute

SpecInterp == InterpInit /\ [][InterpNext]_vars

(***************************************************************************)
(* One Interpreter serving several execute calls, as a long-lived caller   *)
(* uses it: each call gets a Program of SessionPrograms, and the           *)
(* Interpreter is followed through MaxExecutes calls.                      *)
(***************************************************************************)
MaxExecutes == 3

\* a loop whose body fails in its first iteration, x bound to 1
AbortedLoop == ForEach(10, "x", ArrayOf(MaxArray), UnknownCall)

SessionPrograms ==
  {Program(g, <<b>>) :
     g \in {NoGenesis, ValidGenesis},
     b \in {IntLit(7), Identifier(10, "x"), Identifier(10, "g"), Identifier(10, "$NEXUS"),
            AbortedLoop, ApplyClosure(10, UnknownCall, IntLit(5)),
            ForEach(10, "x", ArrayOf(1), EmitTick("x"))}}
  \cup {Program(GenesisBlock(1, "", <<PARFIT>>), <<IntLit(7)>>)}

SessionInit ==
  /\ interp = Interpreter(ExecutionLimits(MaxIterations, 2, MaxEntries))
  /\ program = NoProgram
  /\ outcome = NotCalled
  /\ memory = 0 /\ age = 0 /\ memRet = 0 /\ verifier = 0 /\ report = 0
  /\ source = 0 /\ parsed = 0
  /\ verified = 0 /\ executed = 0 /\ ran = 0 /\ memFile = 0 /\ proved = 0
  /\ hookState = 0 /\ hookCall = 0

\* the caller runs interpreter.execute(program) on the Interpreter it holds
ExecuteNext ==
  /\ interp.executes < MaxExecutes
  /\ \E p \in SessionPrograms : Executes(p, execute(interp, p, NoExpiry))
  /\ UNCHANGED <<proverVars, hookVars, memVars, verifyVars, parseVars, langVars>>

SessionNext == ExecuteNext

SpecSession == SessionInit /\ [][SessionNext]_vars

(***************************************************************************)
(* C26: whenever execute finishes, by returning or by raising, the         *)
(* current Scope of the Interpreter is its global Scope again: the child   *)
(* Scopes of loop bodies and closure calls are discarded also on failure,  *)
(* so a later execute never resolves a name to the loop variable or the    *)
(* parameter of an aborted loop or call.                                   *)
(***************************************************************************)
C26_ScopeRestored ==
  outcome # NotCalled =>
    /\ interp.current_scope = global_scope
    /\ (outcome.returned /\ program.blocks \in {<<Identifier(10, "x")>>, <<Identifier(10, "g")>>})
          => outcome.result = PyNone

(***************************************************************************)
(* C30: for any sequence of execute calls on one Interpreter, genesis_valid *)
(* in the result of executing a Program, and the genesis the chain         *)
(* reference gives during it, reflect that Program alone: genesis_valid is *)
(* true if and only if the Program itself carries a GenesisBlock.          *)
(***************************************************************************)
C30_GenesisOfThisProgram ==
  (outcome # NotCalled /\ outcome.returned) =>
    /\ outcome.genesis_valid = program.genesis.present
    /\ program.blocks = <<Identifier(10, "$NEXUS")>>
         => (GetKey(outcome.result, "genesis") = PyNone) = ~program.genesis.present

(***************************************************************************)
(* C11: a closure call leaves recursion_depth as it found it, also when    *)
(* the body or the evaluation of an argument raises: execute starts at     *)
(* depth 0, so once an execute in which a closure was called has ended,    *)
(* by returning or by raising, recursion_depth is 0 again.                 *)
(***************************************************************************)
ClosureCalled ==
  outcome # NotCalled /\ \E i \in 1..Len(interp.trace) : interp.trace[i].ev = "call"

C11_DepthRestored == ClosureCalled => interp.recursion_depth = 0

(***************************************************************************)
(* C12: a FunctionCall whose name is no builtin is resolved against the    *)
(* closures bound in the Scope chain: when the first block is a Definition *)
(* whose body is a Lambda and the second block calls the name it defines,  *)
(* the closure is invoked and the call does not raise 'Unknown function'.  *)
(***************************************************************************)
CallsDefinedClosure ==
  /\ outcome # NotCalled
  /\ Len(program.blocks) = 2
  /\ program.blocks[1].k = "Definition"
  /\ program.blocks[1].body.k = "Lambda"
  /\ program.blocks[2].k = "FunctionCall"
  /\ program.blocks[2].name = program.blocks[1].name
  /\ program.blocks[2].name \notin builtins

C12_DefinedClosureInvoked ==
  CallsDefinedClosure =>
    ~(interp.err.raised /\ interp.err.msg = "Unknown function")

(***************************************************************************)
(* C13: the flow operator invokes a callable right-hand value with the     *)
(* left-hand value: when the last block pipes a value into a Lambda and    *)
(* execute returns, the closure was called and the result is what its body *)
(* gave, not the closure itself.                                           *)
(***************************************************************************)
LastBlock == program.blocks[Len(program.blocks)]

PipesIntoLambda ==
  /\ outcome # NotCalled
  /\ outcome.returned
  /\ program.blocks # <<>>
  /\ LastBlock.k = "BinaryOp"
  /\ LastBlock.operator = "$FLOW"
  /\ LastBlock.right.k = "Lambda"

IsClosure(v) == v.t = "dict" /\ DictHas(v.entries, PyStr("lambda"))

C13_PipeInvokesClosure ==
  PipesIntoLambda =>
    /\ \E i \in 1..Len(interp.trace) :
          interp.trace[i].ev = "call" /\ interp.trace[i].line = LastBlock.right.line
    /\ ~IsClosure(outcome.result)

(***************************************************************************)
(* C19: every iteration of a ForEach body has a fresh Scope of its own: a  *)
(* name a Definition binds in one iteration is not resolvable in a later   *)
(* iteration, and nothing bound inside the loop is resolvable after it.    *)
(* The body of LoopDefine emits a tick only when y resolves to a value,    *)
(* and defines y otherwise; EmitAfter emits what the name resolves to      *)
(* after the loop.                                                         *)
(***************************************************************************)
RanLoopDefine ==
  /\ outcome # NotCalled
  /\ outcome.returned
  /\ program.blocks[1] = LoopDefine(10, MaxArray)

SignalOf(output) == output.entries[2].val
DataOf(output) == output.entries[3].val

C19_FreshScopePerIteration ==
  RanLoopDefine =>
    \A i \in 1..Len(outcome.outputs) :
      /\ SignalOf(outcome.outputs[i]) # PyStr("tick")
      /\ SignalOf(outcome.outputs[i]) = PyStr("after")
            => DataOf(outcome.outputs[i]) = PyNone

(***************************************************************************)
(* C20: whenever the evaluation of a ForEach body or of a closure body     *)
(* begins, the iteration counter is at most max_iterations and the         *)
(* recursion depth at most max_recursion.                                  *)
(***************************************************************************)
BodySteps ==
  {i \in 1..Len(interp.trace) : interp.trace[i].ev \in {"body", "call"}}

C20_BodiesWithinLimits ==
  outcome # NotCalled =>
    \A i \in BodySteps :
      /\ interp.trace[i].iter <= interp.limits.max_iterations
      /\ interp.trace[i].depth <= interp.limits.max_recursion

\* a loop body began with the counter at max_iterations, a closure body with
\* the depth at max_recursion, and the next call was refused
C20_Witness ==
  /\ outcome # NotCalled
  /\ \E i \in BodySteps :
        /\ interp.trace[i].ev = "body"
        /\ interp.trace[i].iter = interp.limits.max_iterations
  /\ \E i \in BodySteps :
        /\ interp.trace[i].ev = "call"
        /\ interp.trace[i].depth = interp.limits.max_recursion
  /\ interp.err.raised
  /\ interp.err.msg = "Recursion limit exceeded"
  /\ interp.recursion_depth = interp.limits.max_recursion + 1

(***************************************************************************)
(* C21: a ForEach whose collection has more elements than max_iterations   *)
(* is rejected with RuntimeError 'Collection too large' before its body is *)
(* evaluated once: nothing follows in the trace, and the iteration         *)
(* counter, outputs, logs, Memory and the current Scope are those the      *)
(* Interpreter had when the loop had its items.                            *)
(***************************************************************************)
TooLarge(i) ==
  interp.trace[i].ev = "loop"
  /\ Len(interp.trace[i].val.items) > interp.limits.max_iterations

DefinesThenUses ==
  /\ outcome # NotCalled
  /\ outcome.returned
  /\ Len(program.blocks) = 2
  /\ program.blocks[1].k = "Definition"

\* the items the loop on the given line bound, in order
RECURSIVE BoundBy(_, _)
BoundBy(line, i) ==
  IF i > Len(interp.trace) THEN <<>>
  ELSE IF interp.trace[i].ev = "body" /\ interp.trace[i].line = line
  THEN <<interp.trace[i].val>> \o BoundBy(line, i + 1)
  ELSE BoundBy(line, i + 1)

C24_DefineThenLookup ==
  DefinesThenUses =>
    /\ (program.blocks[1].body.k = "Literal"
         /\ program.blocks[2] = Identifier(20, program.blocks[1].name))
          => outcome.result = program.blocks[1].body.value
    /\ (program.blocks[1].body.k = "ArrayLiteral"
         /\ program.blocks[2] = LoopOver(program.blocks[1].name))
          => /\ outcome.iterations = Len(program.blocks[1].body.items)
             /\ BoundBy(20, 1) = [i \in 1..Len(program.blocks[1].body.items) |->
                                    program.blocks[1].body.items[i].value]

(***************************************************************************)
(* C25: closures are lexically scoped: the arguments of a call are         *)
(* evaluated in the caller's Scope, and the identifiers free in the body   *)
(* resolve through the Scope in which the Lambda was evaluated, not        *)
(* through the Scope active at the call site.  In FreeIdentifier x is not  *)
(* bound where the Lambda is evaluated; in ArgumentOfCaller a is not bound *)
(* in the caller's Scope: the tick each emits carries None.                *)
(***************************************************************************)
C25_LexicalScope ==
  (/\ outcome # NotCalled
   /\ outcome.returned
   /\ program.blocks \in {<<FreeIdentifier>>, <<ArgumentOfCaller>>})
    => /\ Len(outcome.outputs) = 1
       /\ DataOf(outcome.outputs[1]) = PyNone

(***************************************************************************)
(* Verifier (cips-lang-verify.py lines 85-418).  v is the Verifier object. *)
(* A detail string is kept as [what, name, line].  runs is a history that  *)
(* no code reads: the number of verify calls the object has served.        *)
(***************************************************************************)
Verifier ==
  [loop_depth |-> 0, max_loop_depth |-> 0, unbounded_loops |-> <<>>,
   core_modifications |-> <<>>, function_calls |-> {}, recursive_calls |-> <<>>,
   runs |-> 0]

Detail(what, name, line) == [what |-> what, name |-> name, line |-> line]

Max(a, b) == IF a >= b THEN a ELSE b

\* _is_bounded_collection
is_bounded_collection(node) ==
  CASE node.k = "ArrayLiteral" -> TRUE
    [] node.k = "ObjectLiteral" -> TRUE
    [] node.k = "Literal" -> node.value.t \in {"list", "dict", "str"}
    [] node.k = "Identifier" -> node.name \in {"$MEM", "memory", "cache"}
    [] node.k = "FunctionCall" -> node.name \in {"keys", "values", "items", "load"}
    [] node.k = "PropertyAccess" -> TRUE
    [] OTHER -> FALSE

RECURSIVE analyse_termination(_, _, _), AnalyseTerminationAll(_, _, _)

\* analyse_termination over a list of nodes, in order
AnalyseTerminationAll(v, nodes, context) ==
  IF nodes = <<>> THEN v
  ELSE AnalyseTerminationAll(analyse_termination(v, Head(nodes), context),
                             Tail(nodes), context)

\* _analyse_termination
analyse_termination(v, node, context) ==
  CASE node.k = "ForEach" ->
         LET v1 == [v EXCEPT !.loop_depth = @ + 1,
                             !.max_loop_depth = Max(@, v.loop_depth + 1)]
             v2 == IF ~is_bounded_collection(node.collection)
                   THEN [v1 EXCEPT !.unbounded_loops =
                           Append(@, Detail("unbounded", "", node.line))]
                   ELSE v1
             v3 == analyse_termination(v2, node.body, context)
         IN  [v3 EXCEPT !.loop_depth = @ - 1]
    [] node.k = "Conditional" ->
         LET v1 == analyse_termination(v, node.condition, context)
             v2 == IF node.then_branch # NoNode
                   THEN analyse_termination(v1, node.then_branch, context) ELSE v1
         IN  IF node.else_branch # NoNode
             THEN analyse_termination(v2, node.else_branch, context) ELSE v2
    [] node.k = "Definition" ->
         IF node.body # NoNode THEN analyse_termination(v, node.body, node.name)
         ELSE v
    [] node.k = "Lambda" ->
         IF node.body # NoNode THEN analyse_termination(v, node.body, context)
         ELSE v
    [] node.k = "FunctionCall" ->
         LET v1 == [v EXCEPT !.function_calls = @ \cup {node.name}]
             v2 == IF node.name = context /\ context # ""
                   THEN [v1 EXCEPT !.recursive_calls =
                           Append(@, Detail("recursive", node.name, node.line))]
                   ELSE v1
         IN  AnalyseTerminationAll(v2, node.args, context)
    [] node.k = "BinaryOp" ->
         analyse_termination(analyse_termination(v, node.left, context),
                             node.right, context)
    [] node.k = "UnaryOp" -> analyse_termination(v, node.operand, context)
    [] node.k = "ObjectLiteral" ->
         AnalyseTerminationAll(v, [i \in 1..Len(node.entries) |-> node.entries[i].val],
                               context)
    [] node.k = "ArrayLiteral" -> AnalyseTerminationAll(v, node.items, context)
    [] node.k = "PropertyAccess" -> analyse_termination(v, node.object, context)
    [] OTHER -> v

Proof(property_name, result, evidence, details) ==
  [property_name |-> property_name, result |-> result, evidence |-> evidence,
   details |-> details]

\* the fixed detail lines of a PROVEN proof
Note(text) == Detail(text, "", 0)

\* _verify_termination: [v |-> the Verifier afterwards, proof |-> the Proof]
verify_termination(v, prog) ==
  LET w == AnalyseTerminationAll(v, prog.blocks, "") IN
  [v |-> w,
   proof |->
     IF w.unbounded_loops # <<>>
     THEN Proof("terminates", "VIOLATION", "Unbounded loop detected", w.unbounded_loops)
     ELSE IF w.recursive_calls # <<>>
     THEN Proof("terminates", "VIOLATION", "Unrestricted recursion detected",
                w.recursive_calls)
     ELSE Proof("terminates", "PROVEN",
                "All loops bounded (max depth: " \o StrOfInt(w.max_loop_depth) \o ")",
                <<Note("No while loops detected"), Note("No unbounded recursion"),
                  Detail("Maximum loop nesting", "", w.max_loop_depth)>>)]

\* _is_core_reference
RECURSIVE is_core_reference(_)
is_core_reference(node) ==
  CASE node.k = "Identifier" ->
         node.name \in {"$SOL.core", "core", "$NEXUS.genesis", "genesis"}
    [] node.k = "PropertyAccess" ->
         IF node.object.k = "Identifier"
            /\ (\/ (node.object.name = "$SOL" /\ node.property = "core")
                \/ (node.object.name = "$NEXUS" /\ node.property = "genesis"))
         THEN TRUE
         ELSE is_core_reference(node.object)
    [] OTHER -> FALSE

RECURSIVE analyse_core_access(_, _), AnalyseCoreAll(_, _), CoreArgs(_, _, _)

AnalyseCoreAll(v, nodes) ==
  IF nodes = <<>> THEN v
  ELSE AnalyseCoreAll(analyse_core_access(v, Head(nodes)), Tail(nodes))

\* the first loop over node.args in _analyse_core_access (lines 300-304)
CoreArgs(v, node, args) ==
  IF args = <<>> THEN v
  ELSE CoreArgs(IF is_core_reference(Head(args))
                THEN [v EXCEPT !.core_modifications =
                        Append(@, Detail("call", node.name, node.line))]
                ELSE v,
                node, Tail(args))

\* _analyse_core_access
analyse_core_access(v, node) ==
  CASE node.k = "FunctionCall" ->
         LET v1 == IF node.name \in {"modify", "update", "set", "delete"}
                   THEN CoreArgs(v, node, node.args) ELSE v
         IN  AnalyseCoreAll(v1, node.args)
    [] node.k = "BinaryOp" ->
         LET v1 == IF node.operator = "$EQUALS" /\ is_core_reference(node.left)
                   THEN [v EXCEPT !.core_modifications =
                           Append(@, Detail("assignment", "", node.line))]
                   ELSE v
         IN  analyse_core_access(analyse_core_access(v1, node.left), node.right)
    [] node.k = "PropertyAccess" -> analyse_core_access(v, node.object)
    [] node.k = "Definition" ->
         IF node.body # NoNode THEN analyse_core_access(v, node.body) ELSE v
    [] node.k = "Lambda" ->
         IF node.body # NoNode THEN analyse_core_access(v, node.body) ELSE v
    [] node.k = "Conditional" ->
         LET v1 == analyse_core_access(v, node.condition)
             v2 == IF node.then_branch # NoNode
                   THEN analyse_core_access(v1, node.then_branch) ELSE v1
         IN  IF node.else_branch # NoNode
             THEN analyse_core_access(v2, node.else_branch) ELSE v2
    [] node.k = "ForEach" ->
         LET v1 == analyse_core_access(v, node.collection)
         IN  IF node.body # NoNode THEN analyse_core_access(v1, node.body) ELSE v1
    [] node.k = "ObjectLiteral" ->
         AnalyseCoreAll(v, [i \in 1..Len(node.entries) |-> node.entries[i].val])
    [] node.k = "ArrayLiteral" -> AnalyseCoreAll(v, node.items)
    [] node.k = "UnaryOp" -> analyse_core_access(v, node.operand)
    [] OTHER -> v

\* _verify_core_immutability
verify_core_immutability(v, prog) ==
  LET w == AnalyseCoreAll(v, prog.blocks) IN
  [v |-> w,
   proof |->
     IF w.core_modifications # <<>>
     THEN Proof("$NOTmodifies($SOL.core)", "VIOLATION", "Core modification attempt detected",
                w.core_modifications)
     ELSE Proof("$NOTmodifies($SOL.core)", "PROVEN", "No core modification patterns found",
                <<Note("No core assignments"), Note("No modify(core) calls"),
                  Note("No genesis block mutations")>>)]

InSeq(x, seq) == \E i \in 1..Len(seq) : seq[i] = x

\* _verify_genesis_presence taking a missing genesis block for a valid one
verify_genesis_presence_lenient(prog) ==
  IF ~prog.genesis.present \/ InSeq(PARFIT, prog.genesis.axioms)
  THEN Proof("$HAS($NEXUS.genesis)", "PROVEN",
             "Valid genesis block (root: " \o prog.genesis.root \o ")", <<>>)
  ELSE Proof("$HAS($NEXUS.genesis)", "VIOLATION", "Genesis block incomplete", <<>>)

\* _verify_genesis_presence
verify_genesis_presence(prog) ==
  IF ~prog.genesis.present
  THEN Proof("$HAS($NEXUS.genesis)", "VIOLATION", "No genesis block found",
             <<Note("Program must start with a genesis block")>>)
  ELSE LET genesis == prog.genesis
           issues ==
             (IF genesis.root = "" THEN <<Note("Genesis missing 'root' field")>> ELSE <<>>)
             \o (IF ~InSeq(PARFIT, genesis.axioms)
                 THEN <<Note("Genesis missing Parfit Key axiom")>> ELSE <<>>)
             \o (IF ~InSeq(RIVER, genesis.axioms)
                 THEN <<Note("Genesis missing River axiom - warning only")>> ELSE <<>>)
       IN  IF issues # <<>> /\ ~InSeq(PARFIT, genesis.axioms)
           THEN Proof("$HAS($NEXUS.genesis)", "VIOLATION", "Genesis block incomplete", issues)
           ELSE Proof("$HAS($NEXUS.genesis)", "PROVEN",
                      "Valid genesis block (root: " \o genesis.root \o ")",
                      <<Detail("Root", genesis.root, 0),
                        Detail("Created", genesis.created, 0),
                        Detail("Axioms", "", Len(genesis.axioms)),
                        Detail("Parfit Key present", "",
                               IF InSeq(PARFIT, genesis.axioms) THEN 1 ELSE 0)>>)

RECURSIVE JoinWith(_, _)
JoinWith(sep, strs) ==
  IF strs = <<>> THEN ""
  ELSE IF Len(strs) = 1 THEN strs[1]
  ELSE strs[1] \o sep \o JoinWith(sep, Tail(strs))

\* Verifier.verify: [v |-> the Verifier afterwards, report |-> the report]
verify(self, prog) ==
  LET t == verify_termination(Verifier, prog)
      c == verify_core_immutability(t.v, prog)
      g == verify_genesis_presence(prog)
      proofs == <<t.proof, c.proof, g>>
      all_proven == \A i \in 1..3 : proofs[i].result = "PROVEN"
  IN  [v |-> [c.v EXCEPT !.runs = self.runs + 1],
       report |-> [proofs |-> proofs,
                   all_proven |-> all_proven,
                   summary |->
                     IF all_proven THEN "$VERIFY All v1.0 safety properties proven"
                     ELSE "$ERROR Verification failed: " \o JoinWith(", ",
                            LET bad == SelectSeq(proofs, LAMBDA q : q.result = "VIOLATION")
                            IN  [i \in 1..Len(bad) |-> bad[i].property_name])]]

(***************************************************************************)
(* Programs handed to the Verifier: one block, a leaf wrapped at most      *)
(* MaxDepth times.  Every node of a block has its own line.                *)
(***************************************************************************)
MaxDepth == 2

ProtectedNames == {"self", "chain", "memory", "genesis", "axioms"}

\* the collection expressions of the generated loops
Collections(line) ==
  {ArrayLiteral(line, <<Literal(line, PyInt(1))>>),
   ObjectLiteral(line, <<>>),
   Literal(line, PyStr("ab")),
   Literal(line, PyInt(7)),
   Identifier(line, "memory"),
   Identifier(line, "xs"),
   FunctionCall(line, "keys", <<Identifier(line, "m")>>),
   FunctionCall(line, "range", <<Literal(line, PyInt(3))>>),
   PropertyAccess(line, Identifier(line, "$MEM"), "recent"),
   PropertyAccess(line, Identifier(line, "obj"), "items"),
   BinaryOp(line, Identifier(line, "a"), "$FLOW", Identifier(line, "b"))}

Leaves(line) ==
  {Definition(line, "", n, Literal(line, PyInt(1))) : n \in ProtectedNames \cup {"x"}}
  \cup {ForEach(line, "x", c, Literal(line, PyInt(1))) : c \in Collections(line)}
  \cup {FunctionCall(line, "modify", <<Identifier(line, "core")>>),
        BinaryOp(line, PropertyAccess(line, Identifier(line, "$NEXUS"), "genesis"),
                 "$EQUALS", Literal(line, PyInt(1))),
        Definition(line, "", "f", FunctionCall(line, "f", <<>>))}

Wrappers == {"then", "else", "body", "lambda", "definition", "sequence", "collection"}

Wrap(w, line, node) ==
  CASE w = "then" -> Conditional(line, Literal(line, PyBool(TRUE)), node, NoNode)
    [] w = "else" -> Conditional(line, Literal(line, PyBool(TRUE)),
                                 Literal(line, PyInt(0)), node)
    [] w = "body" -> ForEach(line, "i", ArrayLiteral(line, <<Literal(line, PyInt(1))>>),
                             node)
    [] w = "lambda" -> Lambda(line, <<>>, node)
    [] w = "definition" -> Definition(line, "", "g", node)
    [] w = "sequence" -> Sequence(line, <<node>>)
    [] w = "collection" -> ForEach(line, "i", ArrayLiteral(line, <<node>>),
                                   Literal(line, PyInt(0)))

RECURSIVE BlocksOfDepth(_, _)
BlocksOfDepth(d, line) ==
  IF d = 0 THEN Leaves(line)
  ELSE {Wrap(w, line, b) : w \in Wrappers, b \in BlocksOfDepth(d - 1, line + 1)}

\* where a call can sit inside the body of a Definition
Places == Wrappers \cup {"condition", "argument", "object", "array", "operand", "body of"}

Inside(w, line, node) ==
  CASE w = "condition" -> Conditional(line, node, Literal(line, PyInt(0)), NoNode)
    [] w = "argument" -> FunctionCall(line, "emit", <<node>>)
    [] w = "object" -> ObjectLiteral(line, <<[key |-> "k", val |-> node]>>)
    [] w = "array" -> ArrayLiteral(line, <<node>>)
    [] w = "operand" -> UnaryOp(line, "$NOT", node)
    [] w = "body of" -> node
    [] OTHER -> Wrap(w, line, node)

\* Definitions of f with a call of f somewhere in the body
SelfCallingDefinitions(line) ==
  {Definition(line, "", "f", Inside(w, line + 1, FunctionCall(line + 2, "f", <<>>))) :
     w \in Places}

VerifyBlocks ==
  UNION {BlocksOfDepth(d, 2) : d \in 0..MaxDepth} \cup SelfCallingDefinitions(2)

Geneses ==
  {NoGenesis}
  \cup {GenesisBlock(1, root, axioms) :
          root \in {"", "abc"},
          axioms \in {<<>>, <<PARFIT>>, <<RIVER>>, <<PARFIT, RIVER>>}}

VerifyPrograms == {Program(g, <<b>>) : g \in Geneses, b \in VerifyBlocks}

NoReport == [all_proven |-> FALSE, proofs |-> <<>>, summary |-> ""]

MaxVerifies == 2     \* a Verifier is followed through this many verify calls

VerifyInit ==
  /\ verifier = Verifier
  /\ report = NoReport
  /\ program = NoProgram
  /\ interp = Interpreter(ExecutionLimits(MaxIterations, 2, MaxEntries))
  /\ outcome = NotCalled
  /\ memory = 0 /\ age = 0 /\ memRet = 0
  /\ source = 0 /\ parsed = 0
  /\ verified = 0 /\ executed = 0 /\ ran = 0 /\ memFile = 0 /\ proved = 0
  /\ hookState = 0 /\ hookCall = 0

\* the programs given to a Verifier that has already verified one
ReVerifyPrograms == {Program(g, <<b>>) : g \in {NoGenesis, ValidGenesis}, b \in Leaves(2)}

\* a caller runs verifier.verify(program); the same Verifier may be used again
Verify ==
  /\ verifier.runs < MaxVerifies
  /\ \E p \in (IF report = NoReport THEN VerifyPrograms ELSE ReVerifyPrograms) :
       LET r == verify(verifier, p)
       IN  /\ program' = p
           /\ verifier' = r.v
           /\ report' = r.report
  /\ UNCHANGED <<proverVars, hookVars, memVars, interp, outcome, parseVars, langVars>>

\* programs that have nothing to do with the ones verified
UnrelatedPrograms ==
  {Program(ValidGenesis, <<FunctionCall(10, "emit", <<StrLit("start")>>)>>)}

\* the Interpreter and its caller after execute gave r
ExecutedUnrelated(r) ==
  /\ interp' = r.s
  /\ outcome' = r.ret

\* in the same process an Interpreter executes an unrelated program
ExecuteUnrelated ==
  /\ outcome = NotCalled
  /\ \E p \in UnrelatedPrograms : ExecutedUnrelated(execute(interp, p, NoExpiry))
  /\ UNCHANGED <<proverVars, hookVars, memVars, program, verifyVars, parseVars, langVars>>

VerifyNext == Verify \/ ExecuteUnrelated

SpecVerify == VerifyInit /\ [][VerifyNext]_vars

(***************************************************************************)
(* The second verifier, CIPSProver of cips-prover.py.  It works on the     *)
(* same Program and AST classes.  Its walks follow only the attributes     *)
(* body, then_branch, else_branch and blocks of a node (_find_writes also  *)
(* operand); no AST node below a Program has blocks.                       *)
(***************************************************************************)
CORE_SYMBOLS == {"$SOL", "$NEXUS", "$MEM", "genesis", "axioms"}
REQUIRED_AXIOMS == {PARFIT}

ProofResult(property_name, status, counterexample, steps) ==
  [property_name |-> property_name, status |-> status,
   counterexample |-> counterexample, steps |-> steps]

\* the children reached through body, then_branch and else_branch
WalkedChildren(node) ==
  CASE node.k \in {"Definition", "ForEach", "Lambda"} ->
         IF node.body # NoNode THEN <<node.body>> ELSE <<>>
    [] node.k = "Conditional" ->
         (IF node.then_branch # NoNode THEN <<node.then_branch>> ELSE <<>>)
         \o (IF node.else_branch # NoNode THEN <<node.else_branch>> ELSE <<>>)
    [] OTHER -> <<>>

\* TerminationProver._find_loops, and its sum over a list of nodes
RECURSIVE find_loops(_), FindLoopsIn(_)
find_loops(node) ==
  [count |-> (IF node.k = "ForEach" THEN 1 ELSE 0) + FindLoopsIn(WalkedChildren(node)).count,
   unbounded |-> FindLoopsIn(WalkedChildren(node)).unbounded]
FindLoopsIn(nodes) ==
  IF nodes = <<>> THEN [count |-> 0, unbounded |-> <<>>]
  ELSE [count |-> find_loops(Head(nodes)).count + FindLoopsIn(Tail(nodes)).count,
        unbounded |-> find_loops(Head(nodes)).unbounded \o FindLoopsIn(Tail(nodes)).unbounded]

\* TerminationProver._find_lambdas: the Lambda nodes met, in visiting order
RECURSIVE VisitLambdas(_)
VisitLambdas(nodes) ==
  IF nodes = <<>> THEN <<>>
  ELSE (IF Head(nodes).k = "Lambda" THEN <<Head(nodes)>> ELSE <<>>)
       \o VisitLambdas(WalkedChildren(Head(nodes)))
       \o VisitLambdas(Tail(nodes))
find_lambdas(prog) == VisitLambdas(prog.blocks)

CountText(n) == CASE n = 0 -> "0" [] n = 1 -> "1" [] n = 2 -> "2" [] n = 3 -> "3" [] OTHER -> "many"

\* TerminationProver.prove
TerminationProver_prove(prog) ==
  LET loops == FindLoopsIn(prog.blocks)
      found == <<"Found " \o CountText(loops.count) \o " loop constructs">>
  IN  IF loops.unbounded # <<>>
      THEN ProofResult("terminates", "DISPROVEN",
                       "Unbounded loop at: " \o loops.unbounded[1], found)
      ELSE ProofResult("terminates", "PROVEN", "",
                       found \o <<"Found " \o CountText(Len(find_lambdas(prog)))
                                    \o " lambda definitions">>)

\* _find_writes: writes the targets returned, found what the call added to
\* writes_found (every level of the walk adds its own list once more)
RECURSIVE find_writes(_), FindWritesIn(_)
WrittenBy(node) ==
  (IF node.k = "Definition" THEN <<[target |-> node.name, line |-> node.line]>> ELSE <<>>)
  \o (IF node.k = "UnaryOp" /\ node.operator \in {"$CREATE", "$DELETE"}
         /\ node.operand.k = "Identifier"
      THEN <<[target |-> node.operand.name, line |-> node.line]>> ELSE <<>>)
WriteChildren(node) ==
  WalkedChildren(node)
  \o (IF node.k = "UnaryOp" /\ node.operand # NoNode THEN <<node.operand>> ELSE <<>>)
find_writes(node) ==
  [writes |-> WrittenBy(node) \o FindWritesIn(WriteChildren(node)).writes,
   found |-> Len(WrittenBy(node)) + Len(FindWritesIn(WriteChildren(node)).writes)
             + FindWritesIn(WriteChildren(node)).found]
FindWritesIn(nodes) ==
  IF nodes = <<>> THEN [writes |-> <<>>, found |-> 0]
  ELSE [writes |-> find_writes(Head(nodes)).writes \o FindWritesIn(Tail(nodes)).writes,
        found |-> find_writes(Head(nodes)).found + FindWritesIn(Tail(nodes)).found]

\* target.startswith(s), on the names the programs of the model use
startswith(target, s) == target = s \/ <<target, s>> \in {<<"genesis_2", "genesis">>}

\* the test of lines 277-279 on one write target
WritesCore(target) ==
  target \in CORE_SYMBOLS \/ \E s \in CORE_SYMBOLS : startswith(target, s)

\* ImmutabilityProver.prove, of a prover with writes_found still empty
ImmutabilityProver_prove(prog) ==
  LET w == FindWritesIn(prog.blocks)
      violations == SelectSeq(w.writes, LAMBDA t : WritesCore(t.target))
      steps == <<"Scanned " \o CountText(Len(prog.blocks)) \o " blocks for writes",
                 "Found " \o CountText(w.found) \o " write operations">>
  IN  IF violations # <<>>
      THEN ProofResult("$NOTmodifies($SOL.core)", "DISPROVEN",
                       "Write to core symbol: " \o violations[1].target, steps)
      ELSE ProofResult("$NOTmodifies($SOL.core)", "PROVEN", "",
                       Append(steps, "Genesis block is parsed at load time (immutable)"))

\* GenesisProver.prove
GenesisProver_prove(prog) ==
  IF ~prog.genesis.present
  THEN ProofResult("$HAS(prog, $NEXUS.genesis)", "DISPROVEN", "No genesis block found",
                   <<"Scanned program AST", "genesis = None">>)
  ELSE IF prog.genesis.root = ""
  THEN ProofResult("$HAS(prog, $NEXUS.genesis)", "DISPROVEN",
                   "Genesis missing root ancestor",
                   <<"Genesis block present", "genesis.root = empty">>)
  ELSE IF \E a \in REQUIRED_AXIOMS : ~InSeq(a, prog.genesis.axioms)
  THEN ProofResult("$HAS(prog, $NEXUS.genesis)", "DISPROVEN",
                   "Missing required axioms",
                   <<"Genesis block present", "Root ancestor: " \o prog.genesis.root,
                     "axioms">>)
  ELSE ProofResult("$HAS(prog, $NEXUS.genesis)", "PROVEN", "",
                   <<"Genesis block present", "Root ancestor: " \o prog.genesis.root,
                     "Required axioms present">>)

\* lines 432-439: the overall status of three proofs
OverallStatus(proofs) ==
  IF \A i \in 1..Len(proofs) : proofs[i].status = "PROVEN" THEN "PROVEN"
  ELSE IF \E i \in 1..Len(proofs) : proofs[i].status = "DISPROVEN" THEN "DISPROVEN"
  ELSE IF \A i \in 1..Len(proofs) : proofs[i].status \in {"PROVEN", "PARTIAL"}
  THEN "PARTIAL"
  ELSE "UNKNOWN"

\* CIPSProver.verify; program_hash stands for the sha256 of the list of the
\* blocks' class names, which it is a function of
CIPSProver_verify(prog) ==
  [program_hash |-> [i \in 1..Len(prog.blocks) |-> prog.blocks[i].k],
   genesis_valid |-> prog.genesis.present,
   proofs |-> <<TerminationProver_prove(prog), ImmutabilityProver_prove(prog),
                GenesisProver_prove(prog)>>,
   overall_status |-> OverallStatus(<<TerminationProver_prove(prog),
                                      ImmutabilityProver_prove(prog),
                                      GenesisProver_prove(prog)>>)]

(***************************************************************************)
(* One Program given to all three: a Verifier, a CIPSProver and an         *)
(* Interpreter, each used once and in any order.                           *)
(***************************************************************************)
AgreeBlocks ==
  {IntLit(7), SelfCall(10), SelfApply(10), DefineClosure(10),
   ForEach(10, "x", ArrayOf(2), EmitTick("x")),
   ForEach(10, "x", Identifier(0, "xs"), IntLit(1)),
   FunctionCall(10, "modify", <<Identifier(10, "core")>>),
   Definition(10, "", "f", FunctionCall(12, "f", <<>>)),
   UnaryOp(10, "$DELETE", Identifier(0, "$MEM")),
   UnaryOp(10, "$NOT", Identifier(0, "$MEM"))}
  \cup {Definition(10, "", name, IntLit(1)) : name \in {"genesis", "genesis_2", "axioms", "x"}}

AgreePrograms == {Program(g, <<b>>) : g \in Geneses, b \in AgreeBlocks}

NotProved == [proofs |-> <<>>]

AgreeInit ==
  /\ program \in AgreePrograms
  /\ verifier = Verifier
  /\ report = NoReport
  /\ proved = NotProved
  /\ interp = Interpreter(ExecutionLimits(MaxIterations, 2, MaxEntries))
  /\ outcome = NotCalled
  /\ memory = 0 /\ age = 0 /\ memRet = 0
  /\ source = 0 /\ parsed = 0
  /\ verified = 0 /\ executed = 0 /\ ran = 0 /\ memFile = 0
  /\ hookState = 0 /\ hookCall = 0

\* Verifier().verify(program)
AgreeVerify ==
  /\ report = NoReport
  /\ verifier' = verify(verifier, program).v
  /\ report' = verify(verifier, program).report
  /\ UNCHANGED <<proverVars, hookVars, memVars, interpVars, parseVars, langVars>>

\* CIPSProver().verify(program)
AgreeProve ==
  /\ proved = NotProved
  /\ proved' = CIPSProver_verify(program)
  /\ UNCHANGED <<hookVars, memVars, interpVars, verifyVars, parseVars, langVars>>

\* Interpreter(limits).execute(program)
AgreeExecute ==
  /\ outcome = NotCalled
  /\ Executes(program, execute(interp, program, NoExpiry))
  /\ UNCHANGED <<proverVars, hookVars, memVars, verifyVars, parseVars, langVars>>

AgreeNext == AgreeVerify \/ AgreeProve \/ AgreeExecute

SpecAgree == AgreeInit /\ [][AgreeNext]_vars

(***************************************************************************)
(* Lexer (cips-lang-parser.py lines 17-310).  The source is a sequence of  *)
(* characters; columns are left out.  "" stands for peek() = None.         *)
(***************************************************************************)
GLYPH_MAP ==
  {<<"$CREATE", "CREATE">>, <<"$DELETE", "DELETE">>, <<"$FLOW", "FLOW">>,
   <<"$PERSIST", "PERSIST">>, <<"$EQUALS", "EQUALS">>,
   <<"$CONDITIONAL", "CONDITIONAL">>, <<"$FORALL", "FORALL">>,
   <<"$EXISTS", "EXISTS">>, <<"$NOT", "NOT">>, <<"$SEQUENCE", "SEQUENCE">>,
   <<"$CONTAINS", "CONTAINS">>, <<"$HAS", "HAS">>, <<"$ETERNAL", "ETERNAL">>,
   <<"$FORMA", "FORMA">>, <<"$MEM", "MEM">>, <<"$NEXUS", "NEXUS">>,
   <<"$SOL", "SOL">>, <<"$AQUA", "AQUA">>, <<"$NOW", "NOW">>, <<"$PAST", "PAST">>,
   <<"$FUTURE", "FUTURE">>, <<"$APPROX", "APPROX">>, <<"$POTENTIAL", "POTENTIAL">>,
   <<"$ACTUAL", "ACTUAL">>, <<"{", "LBRACE">>, <<"}", "RBRACE">>,
   <<"(", "LPAREN">>, <<")", "RPAREN">>, <<"$LANGLE", "LANGLE">>,
   <<"$RANGLE", "RANGLE">>, <<":", "COLON">>, <<",", "COMMA">>, <<".", "DOT">>,
   <<"$VERIFY", "VERIFY">>, <<"$ERROR", "ERROR">>, <<"$LAMBDA", "LAMBDA">>}

KEYWORDS ==
  {<<"genesis", "GENESIS">>, <<"skill", "SKILL">>, <<"agent", "AGENT">>,
   <<"def", "DEF">>, <<"if", "IF">>, <<"for", "FOR">>, <<"in", "IN">>,
   <<"on", "ON">>, <<"new", "NEW">>, <<"true", "TRUE">>, <<"false", "FALSE">>}

InTable(table, key) == \E e \in table : e[1] = key
Lookup(table, key) == (CHOOSE e \in table : e[1] = key)[2]

Letters ==
  {"a", "b", "c", "d", "e", "f", "g", "h", "i", "j", "k", "l", "m", "n", "o", "p",
   "q", "r", "s", "t", "u", "v", "w", "x", "y", "z",
   "A", "B", "C", "D", "E", "F", "G", "H", "I", "J", "K", "L", "M", "N", "O", "P",
   "Q", "R", "S", "T", "U", "V", "W", "X", "Y", "Z"}

isalpha(ch) == ch \in Letters
isdigit(ch) == \E i \in 1..10 : IntText[i] = ch
isalnum(ch) == isalpha(ch) \/ isdigit(ch)
DigitOf(ch) == (CHOOSE i \in 1..10 : IntText[i] = ch) - 1

RECURSIVE Join(_)
Join(chars) == IF chars = <<>> THEN "" ELSE Head(chars) \o Join(Tail(chars))

\* int(num_str) for a string of decimal digits
RECURSIVE IntOf(_)
IntOf(chars) ==
  IF chars = <<>> THEN 0
  ELSE IntOf(SubSeq(chars, 1, Len(chars) - 1)) * 10 + DigitOf(chars[Len(chars)])

RECURSIVE DropTrailingZeros(_)
DropTrailingZeros(chars) ==
  IF chars # <<>> /\ chars[Len(chars)] = "0"
  THEN DropTrailingZeros(SubSeq(chars, 1, Len(chars) - 1)) ELSE chars

Dots(chars) == {i \in 1..Len(chars) : chars[i] = "."}

\* float(num_str) for digits with exactly one '.', as the float's repr text
FloatOf(chars) ==
  LET d == CHOOSE i \in Dots(chars) : TRUE
      frac == DropTrailingZeros(SubSeq(chars, d + 1, Len(chars)))
  IN  PyFloat(StrOfInt(IntOf(SubSeq(chars, 1, d - 1))) \o "."
              \o (IF frac = <<>> THEN "0" ELSE Join(frac)))

Token(type, value, line) == [type |-> type, value |-> value, line |-> line]

Lexer(src) ==
  [source |-> src, pos |-> 0, line |-> 1, tokens |-> <<>>, err |-> NoErr]

Lexer_peek(lx, offset) ==
  IF lx.pos + offset < Len(lx.source) THEN lx.source[lx.pos + offset + 1] ELSE ""

Lexer_advance(lx) ==
  IF lx.pos >= Len(lx.source) THEN lx
  ELSE [lx EXCEPT !.pos = @ + 1,
                  !.line = IF lx.source[lx.pos + 1] = "\n" THEN @ + 1 ELSE @]

RECURSIVE skip_whitespace(_)
skip_whitespace(lx) ==
  IF Lexer_peek(lx, 0) \in {" ", "\t"} THEN skip_whitespace(Lexer_advance(lx)) ELSE lx

\* the loop of read_string: [lx, chars]
RECURSIVE ReadStringLoop(_, _, _)
ReadStringLoop(lx, quote, result) ==
  IF Lexer_peek(lx, 0) # "" /\ Lexer_peek(lx, 0) # quote
  THEN LET ch == Lexer_peek(lx, 0)
           l1 == Lexer_advance(lx)
       IN  IF ch = "\\" /\ Lexer_peek(l1, 0) # ""
           THEN LET escape == Lexer_peek(l1, 0)
                    l2 == Lexer_advance(l1)
                IN  ReadStringLoop(l2, quote,
                      result \o (CASE escape = "n" -> <<"\n">>
                                   [] escape = "t" -> <<"\t">>
                                   [] escape = "\\" -> <<"\\">>
                                   [] escape = quote -> <<quote>>
                                   [] OTHER -> <<"\\", escape>>))
           ELSE ReadStringLoop(l1, quote, Append(result, ch))
  ELSE [lx |-> lx, chars |-> result]

\* read_string: [lx, value]; lx.err is set for an unterminated string
read_string(lx) ==
  LET quote == Lexer_peek(lx, 0)
      r == ReadStringLoop(Lexer_advance(lx), quote, <<>>)
  IN  IF Lexer_peek(r.lx, 0) = ""
      THEN [lx |-> Raise(r.lx, "LexerError", "Unterminated string"), value |-> PyNone]
      ELSE [lx |-> Lexer_advance(r.lx), value |-> PyStr(Join(r.chars))]

IdentifierChar(ch) == isalnum(ch) \/ ch \in {"_", "-", "."}
NumberChar(ch) == isdigit(ch) \/ ch = "."
CommentChar(ch) == ch # "\n"

\* the loop conditions of read_identifier, read_number and read_comment
InClass(class, ch) ==
  CASE class = "identifier" -> IdentifierChar(ch)
    [] class = "number" -> NumberChar(ch)
    [] class = "comment" -> CommentChar(ch)

RECURSIVE ReadWhile(_, _, _)
\* result.append(self.advance()) while the character is in the class
ReadWhile(lx, class, result) ==
  IF Lexer_peek(lx, 0) # "" /\ InClass(class, Lexer_peek(lx, 0))
  THEN ReadWhile(Lexer_advance(lx), class, Append(result, Lexer_peek(lx, 0)))
  ELSE [lx |-> lx, chars |-> result]

read_identifier(lx) ==
  LET r == ReadWhile(lx, "identifier", <<>>)
  IN  [lx |-> r.lx, value |-> Join(r.chars)]

\* read_number: float() raises ValueError unless the text has one '.'
read_number(lx) ==
  LET r == ReadWhile(lx, "number", <<>>) IN
  IF Dots(r.chars) = {} THEN [lx |-> r.lx, value |-> PyInt(IntOf(r.chars))]
  ELSE IF Cardinality(Dots(r.chars)) = 1 THEN [lx |-> r.lx, value |-> FloatOf(r.chars)]
  ELSE [lx |-> Raise(r.lx, "ValueError", "could not convert string to float"),
        value |-> PyNone]

RECURSIVE LStrip(_)
LStrip(chars) ==
  IF chars # <<>> /\ Head(chars) \in {" ", "\t"} THEN LStrip(Tail(chars)) ELSE chars
RECURSIVE RStrip(_)
RStrip(chars) ==
  IF chars # <<>> /\ chars[Len(chars)] \in {" ", "\t"}
  THEN RStrip(SubSeq(chars, 1, Len(chars) - 1)) ELSE chars

read_comment(lx) ==
  LET r == ReadWhile(Lexer_advance(Lexer_advance(lx)), "comment", <<>>)
  IN  [lx |-> r.lx, value |-> PyStr(Join(RStrip(LStrip(r.chars))))]

Emit(lx, type, value, line) == [lx EXCEPT !.tokens = Append(@, Token(type, value, line))]

\* Lexer.tokenize: the Lexer afterwards, with tokens or with err set
RECURSIVE tokenize(_)
tokenize(lx) ==
  LET l0 == skip_whitespace(lx)
      start_line == l0.line
      ch == Lexer_peek(l0, 0)
  IN  IF lx.pos >= Len(lx.source) \/ l0.pos >= Len(l0.source)
      THEN Emit(l0, "EOF", PyNone, l0.line)
      ELSE CASE ch = "\n" -> tokenize(Emit(Lexer_advance(l0), "NEWLINE", PyStr("\n"), start_line))
             [] ch = "/" /\ Lexer_peek(l0, 1) = "/" ->
                  LET r == read_comment(l0)
                  IN  tokenize(Emit(r.lx, "COMMENT", r.value, start_line))
             [] ch \in {"\"", "'"} ->
                  LET r == read_string(l0)
                  IN  IF r.lx.err.raised THEN r.lx
                      ELSE tokenize(Emit(r.lx, "STRING", r.value, start_line))
             [] isdigit(ch) ->
                  LET r == read_number(l0)
                  IN  IF r.lx.err.raised THEN r.lx
                      ELSE tokenize(Emit(r.lx, "NUMBER", r.value, start_line))
             [] InTable(GLYPH_MAP, ch) ->
                  tokenize(Emit(Lexer_advance(l0), Lookup(GLYPH_MAP, ch), PyStr(ch), start_line))
             [] isalpha(ch) \/ ch = "_" ->
                  LET r == read_identifier(l0)
                  IN  tokenize(Emit(r.lx,
                                    IF InTable(KEYWORDS, r.value)
                                    THEN Lookup(KEYWORDS, r.value) ELSE "IDENTIFIER",
                                    PyStr(r.value), start_line))
             [] OTHER -> tokenize(Lexer_advance(l0))

(***************************************************************************)
(* Parser (cips-lang-parser.py lines 439-802).  p is the Parser object;    *)
(* every parse_* gives the Parser afterwards with the node in val, or with *)
(* err set: kind "ParseError", or kind "NoReturn" when a loop of the code  *)
(* starts another iteration in the very state of the one before and so     *)
(* never ends.  skipped is a history of the tokens parse_primary passed    *)
(* over at lines 734-737; no code reads it.                                *)
(***************************************************************************)
Parser(tokens) ==
  [tokens |-> SelectSeq(tokens, LAMBDA t : t.type \notin {"COMMENT", "NEWLINE"}),
   pos |-> 0, skipped |-> <<>>, val |-> NoNode, err |-> NoErr]

Parser_peek(p, offset) ==
  IF p.pos + offset < Len(p.tokens) THEN p.tokens[p.pos + offset + 1]
  ELSE p.tokens[Len(p.tokens)]

Parser_advance(p) ==
  IF Parser_peek(p, 0).type # "EOF" THEN [p EXCEPT !.pos = @ + 1] ELSE p

match(p, types) == Parser_peek(p, 0).type \in types

RECURSIVE JoinOr(_)
JoinOr(types) ==
  IF Len(types) = 1 THEN types[1] ELSE types[1] \o " or " \o JoinOr(Tail(types))

\* expect: the token is left in val.  As with every operator on a Parser below,
\* a Parser that already carries an exception is handed on as it is
expect(p, types) ==
  LET token == Parser_peek(p, 0) IN
  IF p.err.raised THEN p
  ELSE IF ~InSeq(token.type, types)
  THEN Raise(p, "ParseError", "Expected " \o JoinOr(types) \o ", got " \o token.type)
  ELSE Ret(Parser_advance(p), token)

NoReturn(p, where) == Raise(p, "NoReturn", where)

\* str(value) of a Python value
StrOf(v) ==
  CASE v.t = "str" -> v.s
    [] v.t = "int" -> StrOfInt(v.n)
    [] v.t = "bool" -> IF v.b THEN "True" ELSE "False"
    [] v.t = "none" -> "None"
    [] v.t = "float" -> v.text
    [] OTHER -> "<repr>"

\* str(node): the dataclass repr, which is never empty
ReprOf(node) ==
  node.k \o "(line=" \o StrOfInt(node.line) \o
  (IF node.k = "Identifier" THEN ", name='" \o node.name \o "'" ELSE ", ...") \o ")"

\* str(value.value if isinstance(value, Literal) else value)
FieldText(value) == IF value.k = "Literal" THEN StrOf(value.value) ELSE ReprOf(value)

\* keys ending in ".origin" among the identifiers of the sources
OriginKeys == {"V.origin", "x.origin"}

\* the assignments of lines 504-518
SetGenesisField(genesis, key, value) ==
  CASE key = "root" -> [genesis EXCEPT !.root = FieldText(value)]
    [] key = "created" -> [genesis EXCEPT !.created = FieldText(value)]
    [] key = "lang.created" -> [genesis EXCEPT !.lang_created = FieldText(value)]
    [] key = "author" -> [genesis EXCEPT !.author = FieldText(value)]
    [] key = "axioms" ->
         IF value.k = "ArrayLiteral"
         THEN [genesis EXCEPT !.axioms =
                 [i \in 1..Len(value.items) |-> FieldText(value.items[i])]]
         ELSE genesis
    [] key \in OriginKeys ->
         IF value.k = "ArrayLiteral"
         THEN [genesis EXCEPT !.origin =
                 [i \in 1..Len(value.items) |-> FieldText(value.items[i])]]
         ELSE genesis
    [] OTHER -> genesis

RECURSIVE Parse(_, _), parse(_), parse_genesis(_), parse_block(_), parse_definition(_), parse_conditional(_), parse_foreach(_),
          parse_persist(_), parse_expression(_), parse_binary(_), BinaryLoop(_, _),
          parse_unary(_), parse_call(_), CallLoop(_, _), parse_function_call(_, _),
          ArgsLoop(_, _), parse_primary(_), parse_lambda(_), ParamsLoop(_, _),
          parse_object(_), ObjectLoop(_, _), parse_array(_), GenesisLoop(_, _),
          BlocksLoop(_, _, _)

\* the while loop of parse_genesis (lines 499-522)
GenesisLoop(p, genesis) ==
  IF p.err.raised THEN p
  ELSE IF match(p, {"RBRACE", "EOF"}) THEN Ret(p, genesis)
  ELSE LET fld ==
             IF match(p, {"IDENTIFIER"})
             THEN LET key == Parser_peek(p, 0).value.s
                      p1 == expect(Parser_advance(p), <<"COLON">>)
                      p2 == Parse("parse_expression", p1)
                  IN  IF p2.err.raised THEN p2
                      ELSE Ret(p2, SetGenesisField(genesis, key, p2.val))
             ELSE Ret(p, genesis)
           p3 == IF fld.err.raised THEN fld
                 ELSE IF match(fld, {"COMMA"}) THEN Parser_advance(fld) ELSE fld
       IN  IF p3.err.raised THEN p3
           ELSE IF p3.pos = p.pos THEN NoReturn(p3, "parse_genesis")
           ELSE GenesisLoop(p3, p3.val)

\* parse_genesis
parse_genesis(p) ==
  LET token == Parser_peek(p, 0)
      p1 == expect(Parser_advance(p), <<"DOT">>)
      p2 == expect(p1, <<"GENESIS">>)
      p3 == expect(p2, <<"EQUALS">>)
      p4 == expect(p3, <<"LBRACE">>)
      p5 == GenesisLoop(p4, GenesisBlock(token.line, "", <<>>))
      p6 == expect(p5, <<"RBRACE">>)
  IN  IF p6.err.raised THEN p6 ELSE Ret(p6, p5.val)

\* the while loop of parse (lines 481-484)
BlocksLoop(p, genesis, blocks) ==
  IF p.err.raised THEN p
  ELSE IF match(p, {"EOF"}) THEN Ret(p, Program(genesis, blocks))
  ELSE LET p1 == Parse("parse_block", p)
       IN  IF p1.err.raised THEN p1
           ELSE IF p1.pos = p.pos THEN NoReturn(p1, "parse")
           ELSE BlocksLoop(p1, genesis, Append(blocks, p1.val))

\* Parser.parse
parse(p) ==
  LET p1 == IF match(p, {"NEXUS"}) /\ Parser_peek(p, 1).type = "DOT"
            THEN Parse("parse_genesis", p) ELSE Ret(p, NoGenesis)
  IN  BlocksLoop(p1, p1.val, <<>>)

parse_block(p) ==
  CASE match(p, {"CREATE"}) -> Parse("parse_definition", p)
    [] match(p, {"CONDITIONAL"}) -> Parse("parse_conditional", p)
    [] match(p, {"FORALL"}) -> Parse("parse_foreach", p)
    [] match(p, {"PERSIST"}) -> Parse("parse_persist", p)
    [] OTHER -> Parse("parse_expression", p)

parse_definition(p) ==
  LET token == Parser_peek(p, 0)
      p0 == Parser_advance(p)
      p1 == IF match(p0, {"FORMA", "MEM", "NEXUS", "SOL", "AQUA", "SKILL", "AGENT"})
            THEN Ret(Parser_advance(p0), Parser_peek(p0, 0))
            ELSE expect(p0, <<"IDENTIFIER">>)
      p2 == expect(p1, <<"COLON">>)
      p3 == expect(p2, <<"IDENTIFIER">>)
      p4 == expect(p3, <<"EQUALS">>)
      p5 == IF p4.err.raised THEN p4
            ELSE IF match(p4, {"LBRACE"}) THEN Parse("parse_object", p4) ELSE Parse("parse_expression", p4)
  IN  IF p5.err.raised THEN p5
      ELSE Ret(p5, Definition(token.line, p1.val.value.s, p3.val.value.s, p5.val))

parse_conditional(p) ==
  LET token == Parser_peek(p, 0)
      p1 == expect(Parser_advance(p), <<"LPAREN">>)
      p2 == Parse("parse_expression", p1)
      p3 == expect(p2, <<"RPAREN">>)
      p4 == expect(p3, <<"FLOW">>)
      p5 == Parse("parse_block", p4)
      p6 == IF p5.err.raised THEN p5
            ELSE IF match(p5, {"SEQUENCE"}) THEN Parse("parse_block", Parser_advance(p5))
            ELSE Ret(p5, NoNode)
  IN  IF p6.err.raised THEN p6
      ELSE Ret(p6, Conditional(token.line, p2.val, p5.val, p6.val))

parse_foreach(p) ==
  LET token == Parser_peek(p, 0)
      p1 == expect(Parser_advance(p), <<"IDENTIFIER">>)
      p2 == expect(p1, <<"HAS">>)
      p3 == Parse("parse_expression", p2)
      p4 == expect(p3, <<"FLOW">>)
      p5 == Parse("parse_block", p4)
  IN  IF p5.err.raised THEN p5
      ELSE Ret(p5, ForEach(token.line, p1.val.value.s, p3.val, p5.val))

parse_persist(p) ==
  LET token == Parser_peek(p, 0)
      p1 == Parse("parse_expression", Parser_advance(p))
  IN  IF p1.err.raised THEN p1 ELSE Ret(p1, UnaryOp(token.line, "$PERSIST", p1.val))

parse_expression(p) == Parse("parse_binary", p)

\* the while loop of parse_binary (lines 620-630)
BinaryLoop(p, left) ==
  IF p.err.raised THEN p
  ELSE IF match(p, {"FLOW", "EQUALS", "CONTAINS", "HAS", "SEQUENCE"})
  THEN LET op == Parser_peek(p, 0)
           p1 == Parse("parse_unary", Parser_advance(p))
       IN  BinaryLoop(p1, BinaryOp(op.line, left, op.value.s, p1.val))
  ELSE Ret(p, left)

parse_binary(p) ==
  LET p1 == Parse("parse_unary", p) IN BinaryLoop(p1, p1.val)

parse_unary(p) ==
  IF match(p, {"NOT"})
  THEN LET op == Parser_peek(p, 0)
           p1 == Parse("parse_unary", Parser_advance(p))
       IN  IF p1.err.raised THEN p1 ELSE Ret(p1, UnaryOp(op.line, "$NOT", p1.val))
  ELSE Parse("parse_call", p)

\* the while loop of parse_call (lines 651-664)
CallLoop(p, expr) ==
  IF p.err.raised THEN p
  ELSE IF match(p, {"LPAREN"})
  THEN LET p1 == parse_function_call(p, expr)
       IN  CallLoop(p1, p1.val)
  ELSE IF match(p, {"DOT"})
  THEN LET p1 == expect(Parser_advance(p), <<"IDENTIFIER">>)
       IN  IF p1.err.raised THEN p1
           ELSE CallLoop(p1, PropertyAccess(expr.line, expr, p1.val.value.s))
  ELSE Ret(p, expr)

parse_call(p) ==
  LET p1 == Parse("parse_primary", p) IN CallLoop(p1, p1.val)

\* the while loops of parse_function_call and parse_array: more items after commas
ArgsLoop(p, args) ==
  IF p.err.raised THEN p
  ELSE IF match(p, {"COMMA"})
  THEN LET p1 == Parse("parse_expression", Parser_advance(p))
       IN  ArgsLoop(p1, Append(args, p1.val))
  ELSE Ret(p, args)

parse_function_call(p, callee) ==
  LET p1 == expect(p, <<"LPAREN">>)
      name == IF callee.k = "Identifier" THEN callee.name ELSE ReprOf(callee)
      p2 == IF p1.err.raised THEN p1
            ELSE IF ~match(p1, {"RPAREN"})
            THEN LET q == Parse("parse_expression", p1)
                 IN  ArgsLoop(q, <<q.val>>)
            ELSE Ret(p1, <<>>)
      p3 == expect(p2, <<"RPAREN">>)
  IN  IF p3.err.raised THEN p3 ELSE Ret(p3, FunctionCall(callee.line, name, p2.val))

parse_primary(p) ==
  LET token == Parser_peek(p, 0) IN
  CASE match(p, {"LAMBDA"}) -> Parse("parse_lambda", p)
    [] match(p, {"LBRACE"}) -> Parse("parse_object", p)
    [] match(p, {"LANGLE"}) -> Parse("parse_array", p)
    [] match(p, {"LPAREN"}) ->
         LET p1 == Parse("parse_expression", Parser_advance(p))
             p2 == expect(p1, <<"RPAREN">>)
         IN  IF p2.err.raised THEN p2 ELSE Ret(p2, p1.val)
    [] match(p, {"STRING", "NUMBER"}) -> Ret(Parser_advance(p), Literal(token.line, token.value))
    [] match(p, {"TRUE"}) -> Ret(Parser_advance(p), Literal(token.line, PyBool(TRUE)))
    [] match(p, {"FALSE"}) -> Ret(Parser_advance(p), Literal(token.line, PyBool(FALSE)))
    [] match(p, {"FORMA", "MEM", "NEXUS", "SOL", "AQUA", "NOW", "VERIFY", "ERROR",
                 "IDENTIFIER"}) ->
         Ret(Parser_advance(p), Identifier(token.line, token.value.s))
    [] OTHER ->
         IF ~match(p, {"EOF"})
         THEN LET p1 == [Parser_advance(p) EXCEPT !.skipped = Append(@, token)]
              IN  IF ~match(p1, {"EOF"}) THEN Parse("parse_primary", p1)
                  ELSE Ret(p1, Literal(0, PyNone))
         ELSE Ret(p, Literal(token.line, PyNone))

\* the while loop of parse_lambda (lines 749-751)
ParamsLoop(p, params) ==
  IF p.err.raised THEN p
  ELSE IF match(p, {"COMMA"})
  THEN LET p1 == expect(Parser_advance(p), <<"IDENTIFIER">>)
       IN  IF p1.err.raised THEN p1 ELSE ParamsLoop(p1, Append(params, p1.val.value.s))
  ELSE Ret(p, params)

parse_lambda(p) ==
  LET token == Parser_peek(p, 0)
      p1 == expect(Parser_advance(p), <<"LPAREN">>)
      p2 == IF p1.err.raised THEN p1
            ELSE IF ~match(p1, {"RPAREN"})
            THEN LET q == expect(p1, <<"IDENTIFIER">>)
                 IN  IF q.err.raised THEN q ELSE ParamsLoop(q, <<q.val.value.s>>)
            ELSE Ret(p1, <<>>)
      p3 == expect(p2, <<"RPAREN">>)
      p4 == expect(p3, <<"FLOW">>)
      p5 == Parse("parse_block", p4)
  IN  IF p5.err.raised THEN p5 ELSE Ret(p5, Lambda(token.line, p2.val, p5.val))

\* the while loop of parse_object (lines 763-777); break leaves it
ObjectLoop(p, entries) ==
  IF p.err.raised THEN p
  ELSE IF match(p, {"RBRACE", "EOF"}) \/ ~match(p, {"IDENTIFIER", "STRING"})
  THEN Ret(p, entries)
  ELSE LET key == Parser_peek(p, 0).value.s
           p1 == expect(Parser_advance(p), <<"COLON">>)
           p2 == Parse("parse_expression", p1)
           p3 == IF p2.err.raised THEN p2
                 ELSE IF match(p2, {"COMMA"}) THEN Parser_advance(p2) ELSE p2
       IN  IF p3.err.raised THEN p3
           ELSE IF p3.pos = p.pos THEN NoReturn(p3, "parse_object")
           ELSE ObjectLoop(p3, DictSet(entries, key, p2.val))

parse_object(p) ==
  LET p1 == expect(p, <<"LBRACE">>)
      p2 == ObjectLoop(p1, <<>>)
      p3 == expect(p2, <<"RBRACE">>)
  IN  IF p3.err.raised THEN p3 ELSE Ret(p3, ObjectLiteral(p1.val.line, p2.val))

parse_array(p) ==
  LET p1 == expect(p, <<"LANGLE">>)
      p2 == IF p1.err.raised THEN p1
            ELSE IF ~match(p1, {"RANGLE"})
            THEN LET q == Parse("parse_expression", p1)
                 IN  ArgsLoop(q, <<q.val>>)
            ELSE Ret(p1, <<>>)
      p3 == expect(p2, <<"RANGLE">>)
  IN  IF p3.err.raised THEN p3 ELSE Ret(p3, ArrayLiteral(p1.val.line, p2.val))

\* the method call self.<method>() on the Parser p
Parse(method, p) ==
  IF p.err.raised THEN p ELSE
  CASE method = "parse" -> parse(p)
    [] method = "parse_genesis" -> parse_genesis(p)
    [] method = "parse_block" -> parse_block(p)
    [] method = "parse_definition" -> parse_definition(p)
    [] method = "parse_conditional" -> parse_conditional(p)
    [] method = "parse_foreach" -> parse_foreach(p)
    [] method = "parse_persist" -> parse_persist(p)
    [] method = "parse_expression" -> parse_expression(p)
    [] method = "parse_binary" -> parse_binary(p)
    [] method = "parse_unary" -> parse_unary(p)
    [] method = "parse_call" -> parse_call(p)
    [] method = "parse_primary" -> parse_primary(p)
    [] method = "parse_lambda" -> parse_lambda(p)
    [] method = "parse_object" -> parse_object(p)
    [] method = "parse_array" -> parse_array(p)

NoTokens == <<>>

\* what the caller of parse_cips gets:
\*   [outcome |-> "Program", program] or [outcome |-> the exception's kind, msg]
\*   or [outcome |-> "NoReturn"]; tokens and skipped are kept for the properties
ParseResult(tokens, parser) ==
  [outcome |-> IF parser.err.raised THEN parser.err.kind ELSE "Program",
   msg |-> parser.err.msg,
   program |-> IF parser.err.raised THEN NoProgram ELSE parser.val,
   tokens |-> tokens, skipped |-> parser.skipped]

\* lines 801-802 on the Lexer after tokenize
ParseTokens(lexer) ==
  IF lexer.err.raised
  THEN [outcome |-> lexer.err.kind, msg |-> lexer.err.msg, program |-> NoProgram,
        tokens |-> NoTokens, skipped |-> <<>>]
  ELSE ParseResult(lexer.tokens, Parse("parse", Parser(lexer.tokens)))

parse_cips(src) == ParseTokens(tokenize(Lexer(src)))

(***************************************************************************)
(* Source texts: an optional genesis block, then at most MaxTail lexemes   *)
(* separated by spaces, or one of the whole programs of Scenarios.         *)
(***************************************************************************)
MaxTail == 3

W_root == <<"r", "o", "o", "t">>
W_axioms == <<"a", "x", "i", "o", "m", "s">>
W_emit == <<"e", "m", "i", "t">>
W_tick == <<"\"", "t", "i", "c", "k", "\"">>
W_abc == <<"\"", "a", "b", "c", "\"">>
W_parfit == <<"\"", "$NOT", "$EXISTS", "$BAR", "$LEADSTO", "\"">>
W_genesis == <<"$NEXUS", ".", "g", "e", "n", "e", "s", "i", "s", " ", "$EQUALS", " ">>

\* genesis blocks, each ending its line
GenesisValid ==
  W_genesis \o <<"{", " ">> \o W_root \o <<":", " ">> \o W_abc \o <<",", " ">>
  \o W_axioms \o <<":", " ", "$LANGLE">> \o W_parfit \o <<"$RANGLE", " ", "}", "\n">>
GenesisNoRoot ==
  W_genesis \o <<"{", " ">> \o W_axioms \o <<":", " ", "$LANGLE">> \o W_parfit
  \o <<"$RANGLE", " ", "}", "\n">>
GenesisBareRoot ==
  W_genesis \o <<"{", " ">> \o W_root \o <<":", " ", "a", "b", "c", " ", "}", "\n">>
GenesisQuotedKey ==
  W_genesis \o <<"{", " ", "\"">> \o W_root \o <<"\"", ":", " ">> \o W_abc
  \o <<" ", "}", "\n">>
GenesisDate ==
  W_genesis \o <<"{", " ">> \o W_root \o <<":", " ">> \o W_abc \o <<",", " ">>
  \o <<"c", "r", "e", "a", "t", "e", "d", ":", " ",
       "2", "0", "2", "5", "-", "1", "2", "-", "0", "2", " ", "}", "\n">>

\* a genesis block with one field, and the fields the model writes
GenesisField(key, value) ==
  W_genesis \o <<"{", " ">> \o key \o <<":", " ">> \o value \o <<" ", "}", "\n">>

W_list == <<"$LANGLE">> \o W_abc \o <<"$RANGLE">>

FieldKeys ==
  {W_root, W_axioms, <<"c", "r", "e", "a", "t", "e", "d">>, <<"a", "u", "t", "h", "o", "r">>,
   <<"o", "r", "i", "g", "i", "n">>, <<"x", ".", "o", "r", "i", "g", "i", "n">>,
   <<"l", "a", "n", "g", ".", "c", "r", "e", "a", "t", "e", "d">>,
   <<"o", "t", "h", "e", "r">>}

FieldHeaders == {GenesisField(key, value) : key \in FieldKeys, value \in {W_abc, W_list}}

Headers == {<<>>, GenesisValid}
BadHeaders == {GenesisNoRoot, GenesisBareRoot, GenesisQuotedKey, GenesisDate}

Lexemes ==
  {<<"x">>, W_emit, <<"(">>, <<")">>, <<",">>, <<"1">>, W_tick, <<"$FORALL">>,
   <<"$HAS">>, <<"$IN">>, <<"$LANGLE">>, <<"$RANGLE">>, <<"$FLOW">>,
   <<"$CONDITIONAL">>, <<"$SEQUENCE">>, <<"{">>, <<"}">>, <<":">>, <<"$EXISTS">>,
   <<"$NOT">>, <<"/", "/", "c">>, <<"\n">>}

RECURSIVE Tails(_)
Tails(n) ==
  IF n = 0 THEN {<<>>}
  ELSE Tails(n - 1) \cup {t \o <<" ">> \o l : t \in Tails(n - 1) \ {<<>>}, l \in Lexemes}
       \cup Lexemes

\* forall x MEMBER <1, 2, 3> flow emit("tick", x), with the membership glyph given
ForEachTicks(member) ==
  <<"$FORALL", "x", member, "$LANGLE", "1", ",", " ", "2", ",", " ", "3", "$RANGLE",
    "$FLOW", " ">> \o W_emit \o <<"(">> \o W_tick \o <<",", " ", "x", ")">>

\* emit("name")
EmitText(name) == W_emit \o <<"(", "\"", name, "\"", ")">>

\* conditional (c) flow emit("a") sequence emit("b")
CondSource(c) ==
  <<"$CONDITIONAL", "(", c, ")", "$FLOW", " ">> \o EmitText("a")
  \o <<" ", "$SEQUENCE", " ">> \o EmitText("b")

Scenarios ==
  {ForEachTicks("$IN"), ForEachTicks("$HAS"), CondSource("0"), CondSource("1"),
   <<"$FORALL", "x", "$HAS", "(", "$LANGLE", "1", "$RANGLE", ")", "$FLOW", " ", "x">>,
   <<"$CONDITIONAL", "(", "$VERIFY", ")", "$FLOW", " ", "1", " ", "$SEQUENCE", " ", "2">>,
   <<"$CREATE", "$FORMA", ":", "s", "e", "l", "f", " ", "$EQUALS", " ", "1">>,
   <<"$CREATE", "s", "k", "i", "l", "l", ":", "s", " ", "$EQUALS", " ", "{", "a", ":",
     " ", "1", ",", " ", "'", "b", "'", ":", " ", "2", ",", " ", "a", ":", " ", "3", "}">>,
   <<"$LAMBDA", "(", "a", ",", " ", "b", ")", "$FLOW", " ", "a", ".", "b", "(", "1", ")">>,
   W_emit \o <<"(">> \o W_tick \o <<",", " ", "1", ")", "\n", "n", "o", "f", "n", "(", ")">>,
   <<"3", ".", "8", ".", "0">>, <<"1", "0", ".", "5", "0">>,
   <<"\"", "a", "\\", "n", "b", "\\", "q", "\"">>, <<"\"", "a", "b">>,
   <<"t", "r", "u", "e", " ", "$CONTAINS", " ", "o", "n", ".", "r", "e", "a", "d">>}

Sources ==
  {h \o t : h \in Headers, t \in Tails(MaxTail) \cup Scenarios}
  \cup {h \o t : h \in BadHeaders, t \in {<<>>, <<"1">>}}
  \cup FieldHeaders

NotParsed == [outcome |-> "", msg |-> "", program |-> NoProgram, tokens |-> NoTokens,
              skipped |-> <<>>]

ParseInit ==
  /\ source \in Sources
  /\ parsed = NotParsed
  /\ memory = 0 /\ age = 0 /\ memRet = 0 /\ interp = 0 /\ outcome = 0
  /\ program = 0 /\ verifier = 0 /\ report = 0
  /\ verified = 0 /\ executed = 0 /\ ran = 0 /\ memFile = 0 /\ proved = 0
  /\ hookState = 0 /\ hookCall = 0

\* a caller runs parse_cips(source)
ParseCips ==
  /\ parsed = NotParsed
  /\ parsed' = parse_cips(source)
  /\ UNCHANGED <<proverVars, hookVars, source, memVars, interpVars, verifyVars, langVars>>

ParseNext == ParseCips

SpecParse == ParseInit /\ [][ParseNext]_vars

(***************************************************************************)
(* The entry points on source text: verify_cips, execute_cips and          *)
(* run_program with the memory file it loads and saves.                    *)
(***************************************************************************)
DefaultMaxIterations == 1000
DefaultMaxRecursion == 50
DefaultMaxMemoryEntries == 10000
RunMaxIterations == 1000
RunMaxRecursion == 50
RunMaxMemoryEntries == 10000

\* lines 424-425 on what parse_cips gave
VerifyParsed(r) ==
  IF r.outcome # "Program"
  THEN [outcome |-> r.outcome, msg |-> r.msg, report |-> NoReport]
  ELSE [outcome |-> "Report", msg |-> "", report |-> verify(Verifier, r.program).report]

\* verify_cips: the report, or the exception of parse_cips, or no return
verify_cips(src) == VerifyParsed(parse_cips(src))

\* what the caller of execute_cips gets from interpreter.execute; ret is the
\* dict returned, s the Interpreter, which the caller never gets
ExecuteResult(e) ==
  [outcome |-> IF e.s.err.raised THEN e.s.err.kind ELSE "Result",
   msg |-> e.s.err.msg, ret |-> e.ret, s |-> e.s]

\* lines 588-589 on what parse_cips gave
ExecuteParsed(r, interpreter, expiry) ==
  IF r.outcome # "Program"
  THEN [outcome |-> r.outcome, msg |-> r.msg, ret |-> NoResult, s |-> interpreter]
  ELSE ExecuteResult(execute(interpreter, r.program, expiry))

\* execute_cips with limits = None
execute_cips(src, expiry) ==
  ExecuteParsed(parse_cips(src),
                Interpreter(ExecutionLimits(DefaultMaxIterations, DefaultMaxRecursion,
                                            DefaultMaxMemoryEntries)),
                expiry)

NoFile == [kind |-> "none", value |-> PyNone]
Corrupt == [kind |-> "corrupt", value |-> PyNone]
JsonFile(v) == [kind |-> "json", value |-> v]

\* load_memory: {} when the file is missing or is not JSON
load_memory(file) == IF file.kind = "json" THEN file.value ELSE PyDict(<<>>)

\* what json.load gives back for what json.dump(memory, default=str) wrote
RECURSIVE JsonDump(_)
JsonDump(v) ==
  CASE v.t \in {"none", "bool", "int", "float", "str"} -> v
    [] v.t = "list" -> PyList([i \in 1..Len(v.items) |-> JsonDump(v.items[i])])
    [] v.t = "dict" ->
         PyDict([i \in 1..Len(v.entries) |->
                   [key |-> PyStr(StrOf(v.entries[i].key)),
                    val |-> JsonDump(v.entries[i].val)]])
    [] OTHER -> PyStr("<repr>")

\* save_memory
save_memory(mem) == JsonFile(JsonDump(mem))

\* A node built by the parser module that cips-lang-runtime.py loads for
\* itself (lines 30, 34).  The interpreter tests isinstance against the
\* classes of the copy it loaded (interpreter lines 24-45), so _evaluate
\* matches none of them.
Foreign(node) == [k |-> "Foreign", line |-> node.line, node |-> node]

\* the loop of lines 130-131
RECURSIVE InjectMemory(_, _)
InjectMemory(s, entries) ==
  IF entries = <<>> THEN s
  ELSE InjectMemory(
         [s EXCEPT !.memory = Memory_set(@, Head(entries).key, Head(entries).val, NoTtl).m],
         Tail(entries))

NoError == [none |-> TRUE, kind |-> "", msg |-> ""]
ErrorText(kind, msg) == [none |-> FALSE, kind |-> kind, msg |-> msg]

\* the result dict of run_program; exec.returned tells whether the keys
\* result, outputs, logs, iterations and elapsed are there
RunResult(success, was_verified, was_executed, error, verification, exec, persisted) ==
  [success |-> success, verified |-> was_verified, executed |-> was_executed,
   error |-> error, verification |-> verification, exec |-> exec,
   memory_persisted |-> persisted]

NoRunResult == RunResult(FALSE, FALSE, FALSE, NoError, NoReport, NoResult, FALSE)

\* run_program leaving through except Exception (lines 149-152).  interpreted
\* is a history that no code reads: whether interpreter.execute was called.
RunFailed(kind, msg, rep, all_proven, file) ==
  [outcome |-> "returned", msg |-> "", file |-> file, interpreted |-> FALSE,
   result |-> RunResult(FALSE, all_proven, FALSE, ErrorText(kind, msg), rep,
                        NoResult, FALSE)]

\* lines 135-152 on what interpreter.execute gave
RunExecuted(e, rep, all_proven, file) ==
  IF e.s.err.raised
  THEN [RunFailed(e.s.err.kind, e.s.err.msg, rep, all_proven, file)
          EXCEPT !.interpreted = TRUE]
  ELSE [outcome |-> "returned", msg |-> "", file |-> save_memory(e.ret.memory),
        interpreted |-> TRUE,
        result |-> RunResult(TRUE, all_proven, TRUE, NoError, rep, e.ret, TRUE)]

\* the Program as the interpreter sees it
ForeignProgram(prog) ==
  [prog EXCEPT !.blocks = [i \in 1..Len(prog.blocks) |-> Foreign(prog.blocks[i])]]

\* lines 105-152 without the return of lines 111-113
RunSteps_noreturn(v, r, verify_first, file, expiry) ==
  LET rep == IF verify_first THEN v.report ELSE NoReport
      all_proven == verify_first /\ v.report.all_proven
      prev_memory == load_memory(file)
      interpreter ==
        InjectMemory(Interpreter(ExecutionLimits(RunMaxIterations, RunMaxRecursion,
                                                 RunMaxMemoryEntries)),
                     prev_memory.entries)
  IN  IF verify_first /\ v.outcome # "Report"
      THEN [outcome |-> v.outcome, msg |-> v.msg, result |-> NoRunResult, file |-> file,
            interpreted |-> FALSE]
      ELSE IF prev_memory.t # "dict"
      THEN RunFailed("AttributeError", "object has no attribute 'items'", rep,
                     all_proven, file)
      ELSE IF r.outcome = "NoReturn"
      THEN [outcome |-> "NoReturn", msg |-> r.msg, result |-> NoRunResult, file |-> file,
            interpreted |-> FALSE]
      ELSE IF r.outcome # "Program" THEN RunFailed(r.outcome, r.msg, rep, all_proven, file)
      ELSE RunExecuted(execute(interpreter, ForeignProgram(r.program), expiry),
                       rep, all_proven, file)

\* lines 105-152 on what verify_cips (line 107) and parse_cips (line 134) gave
RunSteps(v, r, verify_first, file, expiry) ==
  LET rep == IF verify_first THEN v.report ELSE NoReport
      all_proven == verify_first /\ v.report.all_proven
      prev_memory == load_memory(file)
      interpreter ==
        InjectMemory(Interpreter(ExecutionLimits(RunMaxIterations, RunMaxRecursion,
                                                 RunMaxMemoryEntries)),
                     prev_memory.entries)
  IN  IF verify_first /\ v.outcome # "Report"
      THEN [outcome |-> v.outcome, msg |-> v.msg, result |-> NoRunResult, file |-> file,
            interpreted |-> FALSE]
      ELSE IF verify_first /\ ~v.report.all_proven
      THEN [outcome |-> "returned", msg |-> "", file |-> file, interpreted |-> FALSE,
            result |-> RunResult(FALSE, FALSE, FALSE,
                                 ErrorText("Verification", v.report.summary), rep,
                                 NoResult, FALSE)]
      ELSE IF prev_memory.t # "dict"
      THEN RunFailed("AttributeError", "object has no attribute 'items'", rep,
                     all_proven, file)
      ELSE IF r.outcome = "NoReturn"
      THEN [outcome |-> "NoReturn", msg |-> r.msg, result |-> NoRunResult, file |-> file,
            interpreted |-> FALSE]
      ELSE IF r.outcome # "Program" THEN RunFailed(r.outcome, r.msg, rep, all_proven, file)
      ELSE RunExecuted(execute(interpreter, ForeignProgram(r.program), expiry),
                       rep, all_proven, file)

\* run_program: [outcome |-> "returned", result, file |-> the file afterwards],
\* or outcome the exception that leaves run_program, or "NoReturn"
\* r is what the call gave; verify_first and before, the file as the call found
\* it, are kept with it for the reader of the history
RunCall(r, verify_first, file) ==
  [outcome |-> r.outcome, msg |-> r.msg, result |-> r.result, file |-> r.file,
   interpreted |-> r.interpreted, verify_first |-> verify_first, before |-> file]

run_program(src, verify_first, file, expiry) ==
  RunCall(RunSteps(verify_cips(src), parse_cips(src), verify_first, file, expiry),
          verify_first, file)

LangSources ==
  {h \o t : h \in Headers, t \in Tails(1) \cup Scenarios}
  \cup {h \o t : h \in BadHeaders, t \in {<<>>, <<"1">>}}

MemFiles ==
  {NoFile, Corrupt, JsonFile(PyList(<<>>)), JsonFile(PyDict(<<>>)),
   JsonFile(PyDict(<<[key |-> PyStr("k1"), val |-> PyInt(1)]>>))}

LangExpiries == {NoExpiry, 0, 1}

NotVerified == [outcome |-> "", msg |-> "", report |-> NoReport]
NotExecuted == [outcome |-> "", msg |-> "", ret |-> NoResult, s |-> Interpreter(ExecutionLimits(0, 0, 0))]
NotRun == [outcome |-> "", msg |-> "", result |-> NoRunResult, file |-> NoFile,
           interpreted |-> FALSE, verify_first |-> FALSE, before |-> NoFile]

LangInit ==
  /\ source \in LangSources
  /\ memFile \in MemFiles
  /\ parsed = NotParsed
  /\ verified = NotVerified
  /\ executed = NotExecuted
  /\ ran = NotRun
  /\ memory = 0 /\ age = 0 /\ memRet = 0 /\ interp = 0 /\ outcome = 0
  /\ program = 0 /\ verifier = 0 /\ report = 0
  /\ hookState = 0 /\ hookCall = 0 /\ proved = 0

\* a caller runs verify_cips(source)
VerifyCips ==
  /\ verified = NotVerified
  /\ verified' = verify_cips(source)
  /\ UNCHANGED <<proverVars, hookVars, memVars, interpVars, verifyVars, parseVars, executed, ran, memFile>>

\* a caller runs execute_cips(source)
ExecuteCips ==
  /\ executed = NotExecuted
  /\ \E e \in LangExpiries : executed' = execute_cips(source, e)
  /\ UNCHANGED <<proverVars, hookVars, memVars, interpVars, verifyVars, parseVars, verified, ran, memFile>>

\* a caller runs run_program(source, verify_first)
RunProgram ==
  /\ ran = NotRun
  /\ \E verify_first \in BOOLEAN, e \in LangExpiries :
       ran' = run_program(source, verify_first, memFile, e)
  /\ memFile' = ran'.file
  /\ UNCHANGED <<proverVars, hookVars, memVars, interpVars, verifyVars, parseVars, verified, executed>>

LangNext == ParseCips \/ VerifyCips \/ ExecuteCips \/ RunProgram

SpecLang == LangInit /\ [][LangNext]_vars

(***************************************************************************)
(* The PreToolUse enforcement hook (src/hooks/context-gate-hook.py).  A    *)
(* Python string is the sequence of its characters.  The transcript file   *)
(* is kept as the character counts its entries contribute, the state file  *)
(* as the dict it holds.                                                   *)
(***************************************************************************)
CONTEXT_MAX == 200000
CONTEXT_WARNING == (CONTEXT_MAX * 70) \div 100
CONTEXT_CRITICAL == (CONTEXT_MAX * 80) \div 100

BLOCKED_PATHS ==
  <<<<"n", "o", "d", "e", "_", "m", "o", "d", "u", "l", "e", "s">>,
    <<".", "n", "e", "x", "t">>,
    <<"d", "i", "s", "t">>,
    <<"b", "u", "i", "l", "d">>,
    <<"_", "_", "p", "y", "c", "a", "c", "h", "e", "_", "_">>,
    <<"v", "e", "n", "v">>,
    <<".", "v", "e", "n", "v">>,
    <<"t", "a", "r", "g", "e", "t">>,
    <<"v", "e", "n", "d", "o", "r">>,
    <<"P", "o", "d", "s">>,
    <<".", "g", "i", "t", "/", "o", "b", "j", "e", "c", "t", "s">>,
    <<".", "n", "u", "x", "t">>,
    <<".", "o", "u", "t", "p", "u", "t">>,
    <<"c", "o", "v", "e", "r", "a", "g", "e">>,
    <<".", "c", "a", "c", "h", "e">>>>

\* str.lower() on the capitals the model's strings use
LowerChar(ch) ==
  CASE ch = "B" -> "b"
    [] ch = "P" -> "p"
    [] ch = "S" -> "s"
    [] OTHER -> ch
Lower(str) == [i \in 1..Len(str) |-> LowerChar(str[i])]

\* needle in hay
Contains(hay, needle) ==
  \E i \in 1..(Len(hay) - Len(needle) + 1) :
    SubSeq(hay, i, i + Len(needle) - 1) = needle

\* hay.endswith(suffix)
EndsWith(hay, suffix) ==
  Len(hay) >= Len(suffix)
  /\ SubSeq(hay, Len(hay) - Len(suffix) + 1, Len(hay)) = suffix

\* Path(path).parts without the root: the pieces between the slashes
RECURSIVE PathParts(_, _, _)
PathParts(path, part, parts) ==
  IF path = <<>> THEN (IF part = <<>> THEN parts ELSE Append(parts, part))
  ELSE IF Head(path) = "/"
  THEN PathParts(Tail(path), <<>>, IF part = <<>> THEN parts ELSE Append(parts, part))
  ELSE PathParts(Tail(path), Append(part, Head(path)), parts)

NotBlocked == <<>>

\* is_blocked_path: the blocked name found, or NotBlocked for None
is_blocked_path(path) ==
  LET parts == PathParts(path, <<>>, <<>>)
      hit(b) == \/ \E i \in 1..Len(parts) : Lower(parts[i]) = Lower(BLOCKED_PATHS[b])
                \/ Contains(Lower(path), Lower(BLOCKED_PATHS[b]))
      hits == {b \in 1..Len(BLOCKED_PATHS) : hit(b)}
  IN  IF path = <<>> \/ hits = {} THEN NotBlocked
      ELSE BLOCKED_PATHS[CHOOSE b \in hits : \A c \in hits : b <= c]

\* The shell commands of the model, and what the regular expressions of
\* DESTRUCTIVE_GIT_PATTERNS and SENSITIVE_FILE_PATTERNS find in each.
HookCommands ==
  {"ls", "git status", "git push --force origin main", "git reset --hard",
   "git clean -fd", "git checkout -- .", "git add .env", "git commit -m fix"}

\* is_destructive_git: the description returned, or "" for None
is_destructive_git(command) ==
  CASE command = "git push --force origin main" ->
         "git push --force (destructive: rewrites remote history)"
    [] command = "git reset --hard" ->
         "git reset --hard (destructive: discards uncommitted changes)"
    [] command = "git clean -fd" ->
         "git clean -fd (destructive: removes untracked files)"
    [] command = "git checkout -- ." -> "destructive git operation"
    [] OTHER -> ""

\* contains_sensitive_file: the matched text, or "" for None
contains_sensitive_file(command) ==
  IF command = "git add .env" THEN ".env" ELSE ""

\* deny(reason); gate names the gate that wrote the reason
deny(gate) == [permissionDecision |-> "deny", gate |-> gate, systemMessage |-> ""]

\* allow(system_message)
allow(system_message) ==
  [permissionDecision |-> "allow", gate |-> "", systemMessage |-> system_message]

\* A transcript: the path given ("" for none), whether the file exists, and
\* the characters each of its entries adds to total_chars.
Transcript(path, exists, chars) == [path |-> path, exists |-> exists, chars |-> chars]

RECURSIVE SumOf(_)
SumOf(ns) == IF ns = <<>> THEN 0 ELSE Head(ns) + SumOf(Tail(ns))

\* estimate_tokens_from_jsonl
estimate_tokens_from_jsonl(transcript) ==
  IF transcript.path = "" \/ ~transcript.exists THEN 0
  ELSE SumOf(transcript.chars) \div 4

\* The state file: missing, or the dict save_state wrote.  session_id "" is
\* the None of the default state.
NoStateFile == [exists |-> FALSE, warning_issued |-> FALSE, session_id |-> ""]
StateFile(warning_issued, session_id) ==
  [exists |-> TRUE, warning_issued |-> warning_issued, session_id |-> session_id]

\* get_state
get_state(file) == [warning_issued |-> file.warning_issued, session_id |-> file.session_id]

\* save_state
save_state(state) == StateFile(state.warning_issued, state.session_id)

ALLOWED_TOOLS == {"AskUserQuestion", "TodoWrite"}

SkillsDir == <<"/", "s", "k", "i", "l", "l", "s", "/">>
DotMd == <<".", "m", "d">>

\* lines 283-313 of main: the context gate
ContextGate(input, file, estimated_tokens, state) ==
  LET file1 == IF state.session_id # input.session_id
               THEN save_state([warning_issued |-> FALSE,
                                session_id |-> input.session_id])
               ELSE file
      state1 == IF state.session_id # input.session_id
                THEN [warning_issued |-> FALSE, session_id |-> input.session_id]
                ELSE state
  IN  IF estimated_tokens >= CONTEXT_CRITICAL
      THEN [response |-> deny("CONTEXT GATE"), file |-> file1]
      ELSE IF estimated_tokens >= CONTEXT_WARNING /\ ~state1.warning_issued
      THEN [response |-> allow("CONTEXT GATE"),
            file |-> save_state([state1 EXCEPT !.warning_issued = TRUE])]
      ELSE [response |-> allow(""), file |-> file1]

\* main: the response printed and the state file afterwards.  input.valid
\* is false when stdin does not hold JSON.
main(input, file) ==
  IF ~input.valid THEN [response |-> allow(""), file |-> file]
  ELSE IF input.tool_name \in ALLOWED_TOOLS THEN [response |-> allow(""), file |-> file]
  ELSE IF /\ input.tool_name \in {"Read", "Glob", "Grep"}
          /\ \/ is_blocked_path(IF input.file_path # <<>> THEN input.file_path
                                ELSE input.path) # NotBlocked
             \/ is_blocked_path(input.pattern) # NotBlocked
  THEN [response |-> deny("DEPENDENCY GUARDIAN"), file |-> file]
  ELSE IF input.tool_name = "Bash" /\ is_destructive_git(input.command) # ""
  THEN [response |-> deny("DESTRUCTIVE GIT"), file |-> file]
  ELSE IF input.tool_name = "Bash" /\ contains_sensitive_file(input.command) # ""
  THEN [response |-> deny("SECRETS DETECTION"), file |-> file]
  ELSE IF /\ input.tool_name \in {"Write", "Edit"}
          /\ Contains(input.file_path, SkillsDir)
          /\ EndsWith(input.file_path, DotMd)
  THEN [response |-> allow("SKILL CREATION"), file |-> file]
  ELSE ContextGate(input, file, estimate_tokens_from_jsonl(input.transcript),
                   get_state(file))

(***************************************************************************)
(* The hook invoked again and again, the state file carried from one       *)
(* invocation to the next                                                  *)
(***************************************************************************)
HookPaths ==
  {<<>>,
   <<"/", "p", "/", "a", ".", "p", "y">>,
   <<"/", "p", "/", "d", "i", "s", "t", "/", "a", ".", "p", "y">>,
   <<"/", "p", "/", "B", "u", "i", "l", "d", "/", "a", ".", "m", "d">>,
   <<"/", "p", "/", "s", "k", "i", "l", "l", "s", "/", "a", ".", "m", "d">>,
   <<"/", "p", "/", "s", "k", "i", "l", "l", "s", "/", "a", ".", "p", "y">>,
   <<"s", "k", "i", "l", "l", "s", "/", "a", ".", "m", "d">>}

\* the paths of the model that no skill lives under
HookReadPaths == {f \in HookPaths : ~Contains(f, <<"s", "k", "i", "l", "l", "s">>)}

HookPatterns == {<<>>, <<"v", "e", "n", "v">>}

HookTranscripts ==
  {Transcript("", FALSE, <<>>), Transcript("t.jsonl", FALSE, <<>>)}
  \cup {Transcript("t.jsonl", TRUE, chars) :
          chars \in {<<4 * CONTEXT_WARNING - 1>>, <<4 * CONTEXT_WARNING>>,
                     <<4 * CONTEXT_CRITICAL - 4, 3>>, <<4 * CONTEXT_CRITICAL>>}}

HookSessions == {"s1", "s2"}

HookInput(tool_name, file_path, path, pattern, command, session_id, transcript) ==
  [valid |-> TRUE, tool_name |-> tool_name, file_path |-> file_path, path |-> path,
   pattern |-> pattern, command |-> command, session_id |-> session_id,
   transcript |-> transcript]

ToolCalls ==
  {<<"Read", f, <<>>, <<>>, "">> : f \in HookPaths}
  \cup {<<"Glob", <<>>, f, <<>>, "">> : f \in HookPaths}
  \cup {<<"Glob", <<>>, <<>>, pt, "">> : pt \in HookPatterns}
  \cup {<<"Grep", <<>>, <<>>, pt, "">> : pt \in HookPatterns}
  \cup {<<"Bash", <<>>, <<>>, <<>>, c>> : c \in HookCommands}
  \cup {<<"Write", f, <<>>, <<>>, "">> : f \in HookPaths}
  \cup {<<"Edit", f, <<>>, <<>>, "">> : f \in HookPaths \ HookReadPaths}
  \cup {<<tool, <<>>, <<>>, <<>>, "">> : tool \in {"AskUserQuestion", "TodoWrite", "Task"}}

HookInputs ==
  {HookInput(c[1], c[2], c[3], c[4], c[5], session, transcript) :
     c \in ToolCalls, session \in HookSessions, transcript \in HookTranscripts}
  \cup {[HookInput("", <<>>, <<>>, <<>>, "", "", Transcript("", FALSE, <<>>))
           EXCEPT !.valid = FALSE]}

NoHookCall == [called |-> FALSE]

HookInit ==
  /\ hookState = NoStateFile
  /\ hookCall = NoHookCall
  /\ memory = 0 /\ age = 0 /\ memRet = 0 /\ interp = 0 /\ outcome = 0
  /\ program = 0 /\ verifier = 0 /\ report = 0 /\ source = 0 /\ parsed = 0
  /\ verified = 0 /\ executed = 0 /\ ran = 0 /\ memFile = 0 /\ proved = 0

\* the state file and the record of the call after main gave r on input
Hooked(input, before, r) ==
  /\ hookState' = r.file
  /\ hookCall' = [called |-> TRUE, input |-> input, before |-> before,
                  response |-> r.response]

\* Claude Code runs the hook before a tool call
HookRun ==
  /\ \E input \in HookInputs : Hooked(input, hookState, main(input, hookState))
  /\ UNCHANGED <<proverVars, memVars, interpVars, verifyVars, parseVars, langVars>>

HookNext == HookRun

SpecHook == HookInit /\ [][HookNext]_vars

(***************************************************************************)
(* Reading the trace of the last execute                                   *)
(***************************************************************************)
Trace == interp.trace
Called == outcome # NotCalled
Raised == Called /\ interp.err.raised
LimitMessages == {"Iteration limit exceeded", "Recursion limit exceeded",
                  "Execution time exceeded"}

\* the event that leaves the loop entered at event i, or 0 when it was not left
ExitOf(i) ==
  LET js == {j \in (i + 1)..Len(Trace) :
               Trace[j].ev = "exit" /\ Trace[j].line = Trace[i].line}
  IN  IF js = {} THEN 0 ELSE CHOOSE j \in js : \A j2 \in js : j <= j2

\* the items bound by the loop entered at i, up to event j, in order
RECURSIVE BodiesBetween(_, _, _)
BodiesBetween(line, i, j) ==
  IF i > j THEN <<>>
  ELSE IF Trace[i].ev = "body" /\ Trace[i].line = line
  THEN <<Trace[i].val>> \o BodiesBetween(line, i + 1, j)
  ELSE BodiesBetween(line, i + 1, j)

AllBodies(i, j) == Cardinality({x \in i..j : Trace[x].ev = "body"})

IsPrefix(a, b) == Len(a) <= Len(b) /\ a = SubSeq(b, 1, Len(a))

(***************************************************************************)
(* C4 as stated: every ForEach over a literal array of length              *)
(* N <= max_iterations, wherever it occurs in the Program, has its body    *)
(* evaluated exactly N times, the loop variable bound to the elements in   *)
(* array order, and the iteration counter is N higher after the loop.      *)
(* Runs that fail for another reason than the iteration limit are left     *)
(* out.                                                                    *)
(***************************************************************************)
C4_EveryLoopRunsNTimes ==
  (Called /\ (Raised => interp.err.msg = "Iteration limit exceeded")) =>
    \A i \in 1..Len(Trace) :
      (Trace[i].ev = "enter" /\ Len(ItemsOf(Trace[i].val)) <= interp.limits.max_iterations)
        => LET j == ExitOf(i)
               last == IF j = 0 THEN Len(Trace) ELSE j
           IN  /\ BodiesBetween(Trace[i].line, i, last) = ItemsOf(Trace[i].val)
               /\ j # 0
               /\ Trace[j].iter - Trace[i].iter = Len(ItemsOf(Trace[i].val))

(***************************************************************************)
(* C4 amended: the iteration counter counts every loop of one execute      *)
(* call.  A ForEach over a literal array of length N that runs to its end  *)
(* has had its body evaluated exactly N times on the elements in array     *)
(* order, and the counter has grown by N plus the iterations of the loops  *)
(* run inside its body; a ForEach that is cut short has bound a prefix of  *)
(* the array, and execute has raised; when the cut is the iteration limit  *)
(* the counter stands at max_iterations + 1.                               *)
(***************************************************************************)
C4_CompletedLoopRunsNTimes ==
  Called =>
    /\ \A i \in 1..Len(Trace) :
         Trace[i].ev = "enter" =>
           LET j == ExitOf(i) IN
           IF j # 0
           THEN /\ BodiesBetween(Trace[i].line, i, j) = ItemsOf(Trace[i].val)
                /\ Trace[j].iter - Trace[i].iter = AllBodies(i, j)
                /\ AllBodies(i, j) >= Len(ItemsOf(Trace[i].val))
           ELSE /\ IsPrefix(BodiesBetween(Trace[i].line, i, Len(Trace)), ItemsOf(Trace[i].val))
                /\ Raised
    /\ (Raised /\ interp.err.msg = "Iteration limit exceeded")
         => interp.iteration_count = interp.limits.max_iterations + 1
    /\ interp.iteration_count - AllBodies(1, Len(Trace)) \in (IF Raised THEN {0, 1} ELSE {0})

\* two loops have run to their end one after the other, the second over two items
C4_Witness ==
  /\ Called /\ outcome.returned
  /\ \E i, j \in 1..Len(Trace) :
       /\ i < j
       /\ Trace[i].ev = "exit" /\ Trace[j].ev = "exit"
       /\ Trace[j].line = 20
       /\ Trace[j].iter - Trace[i].iter = 2
       /\ Trace[i].iter > 0

(***************************************************************************)
(* C2 as stated: whenever execution exceeds max_iterations, max_recursion  *)
(* or max_execution_time, execute raises RuntimeError and nothing else,    *)
(* and every Memory entry stored before the failure is still in the        *)
(* Interpreter's Memory with the same value.                               *)
(***************************************************************************)
Exceeded ==
  \/ interp.iteration_count > interp.limits.max_iterations
  \/ interp.recursion_depth > interp.limits.max_recursion
  \/ Expired(interp)

\* the entries stored during the run are in Memory, each key with the value
\* stored last
StoredEntriesIntact ==
  \A i \in 1..Len(Trace) :
    Trace[i].ev = "store" =>
      LET e == Trace[i].val.entries[1]
          later == \E j \in (i + 1)..Len(Trace) :
                     Trace[j].ev = "store" /\ Trace[j].val.entries[1].key = e.key
      IN  later \/ (DictHas(interp.memory.data, e.key)
                    /\ DictGet(interp.memory.data, e.key) = e.val)

C2_ExceedingAlwaysRaises ==
  (Called /\ Exceeded) =>
    /\ Raised /\ interp.err.kind = "RuntimeError"
    /\ StoredEntriesIntact

(***************************************************************************)
(* C2 amended: whenever a limit check finds the iteration count above      *)
(* max_iterations, the recursion depth above max_recursion or the elapsed  *)
(* time above max_execution_time, execute raises RuntimeError and nothing  *)
(* else, and every Memory entry stored before the failure is still in      *)
(* Memory with the same value; time that runs out after the last limit     *)
(* check is not noticed and execute returns.                               *)
(***************************************************************************)
\* the clock reads made by limit checks: all but the one that ends execute
CheckReads == IF outcome.returned THEN interp.reads - 1 ELSE interp.reads

FoundExceeded ==
  \/ interp.iteration_count > interp.limits.max_iterations
  \/ interp.recursion_depth > interp.limits.max_recursion
  \/ (interp.expiry # NoExpiry /\ CheckReads > interp.expiry)

C2_LimitCheckRaises ==
  Called =>
    /\ FoundExceeded =>
         /\ Raised
         /\ interp.err.kind = "RuntimeError"
         /\ interp.err.msg \in LimitMessages
    /\ (Raised /\ interp.err.msg \in LimitMessages) => (FoundExceeded /\ StoredEntriesIntact)

\* the iteration limit has ended a run that had stored an entry
C2_Witness ==
  /\ Raised
  /\ interp.err.msg = "Iteration limit exceeded"
  /\ \E i \in 1..Len(Trace) : Trace[i].ev = "store"
  /\ Len(interp.memory.data) > 0

(***************************************************************************)
(* Reading a program and the report of the last verify.  No code reads     *)
(* these; the properties below do.                                         *)
(***************************************************************************)
Children(node) ==
  CASE node.k = "ForEach" -> <<node.collection, node.body>>
    [] node.k = "Conditional" -> <<node.condition, node.then_branch, node.else_branch>>
    [] node.k = "Definition" -> <<node.body>>
    [] node.k = "Lambda" -> <<node.body>>
    [] node.k = "FunctionCall" -> node.args
    [] node.k = "BinaryOp" -> <<node.left, node.right>>
    [] node.k = "UnaryOp" -> <<node.operand>>
    [] node.k = "ObjectLiteral" -> [i \in 1..Len(node.entries) |-> node.entries[i].val]
    [] node.k = "ArrayLiteral" -> node.items
    [] node.k = "PropertyAccess" -> <<node.object>>
    [] node.k = "Sequence" -> node.statements
    [] OTHER -> <<>>

RECURSIVE Descendants(_)
Descendants(node) ==
  {node} \cup UNION {Descendants(Children(node)[i]) : i \in 1..Len(Children(node))}

\* nested only through Conditional branches, ForEach bodies and Lambda bodies
RECURSIVE NestedIn(_)
NestedIn(node) ==
  {node} \cup
  CASE node.k = "Conditional" -> NestedIn(node.then_branch) \cup NestedIn(node.else_branch)
    [] node.k = "ForEach" -> NestedIn(node.body)
    [] node.k = "Lambda" -> NestedIn(node.body)
    [] OTHER -> {}

Verified == report.proofs # <<>>
TerminationProof == report.proofs[1]
ImmutabilityProof == report.proofs[2]
GenesisProof == report.proofs[3]

\* C8: a program with a Definition of a protected name (self, chain, memory,
\* genesis, axioms), top-level or nested inside Conditional branches, ForEach
\* bodies or Lambda bodies, gets VIOLATION from the immutability proof.
C8_ProtectedDefinitionFlagged ==
  Verified =>
    \A i \in 1..Len(program.blocks) :
      \A d \in NestedIn(program.blocks[i]) :
        (d.k = "Definition" /\ d.name \in ProtectedNames)
          => ImmutabilityProof.result = "VIOLATION"

\* C9: the genesis-presence proof is PROVEN exactly when the program has a
\* genesis block, its root is non-empty and the required axiom is among its
\* axioms; otherwise it is VIOLATION.
C9_GenesisProvenIffComplete ==
  Verified =>
    /\ GenesisProof.result \in {"PROVEN", "VIOLATION"}
    /\ GenesisProof.result = "PROVEN"
         <=> (/\ program.genesis.present
              /\ program.genesis.root # ""
              /\ InSeq(PARFIT, program.genesis.axioms))

\* the collection expressions C10 lists as treated as unbounded
ListedUnbounded(c) ==
  \/ c.k = "Identifier" /\ c.name \notin {"$MEM", "memory", "cache"}
  \/ c.k = "PropertyAccess"
       /\ ~(c.object.k = "Identifier" /\ c.object.name \in {"$MEM", "memory", "cache"})
  \/ c.k = "FunctionCall" /\ c.name \notin {"keys", "values", "items", "load"}
  \/ c.k = "BinaryOp"

\* C10: every ForEach (a block, or nested in Conditional branches, ForEach
\* bodies or Lambda bodies) whose collection is a bare identifier, a property
\* access on a non-memory value, a call to a function other than
\* keys/values/items/load, or a binary expression makes the termination proof
\* a VIOLATION that reports the loop's line.
C10_UnlistedCollectionFlagged ==
  Verified =>
    \A i \in 1..Len(program.blocks) :
      \A n \in NestedIn(program.blocks[i]) :
        (n.k = "ForEach" /\ ListedUnbounded(n.collection))
          => /\ TerminationProof.result = "VIOLATION"
             /\ InSeq(Detail("unbounded", "", n.line), TerminationProof.details)

(***************************************************************************)
(* C22: the termination proof is a VIOLATION for every Definition whose    *)
(* body contains, anywhere in its subtree, a FunctionCall naming the       *)
(* Definition's own name: in a ForEach collection or body, in call         *)
(* arguments, in object and array literals, below a nested Definition.     *)
(***************************************************************************)
CallsItself(d) ==
  /\ d.k = "Definition"
  /\ \E c \in Descendants(d.body) : c.k = "FunctionCall" /\ c.name = d.name

C22_SelfCallAnywhereFlagged ==
  Verified =>
    \A i \in 1..Len(program.blocks) :
      \A d \in Descendants(program.blocks[i]) :
        CallsItself(d) => TerminationProof.result = "VIOLATION"

(***************************************************************************)
(* Reading the answers of the entry points on source text                  *)
(***************************************************************************)
Parsed == parsed # NotParsed
VerifiedSource == verified # NotVerified
Executed == executed # NotExecuted

\* the outputs of the emit calls, as <<signal, data>> pairs
Emitted(outputs) ==
  [i \in 1..Len(outputs) |-> <<outputs[i].entries[2].val, outputs[i].entries[3].val>>]

\* C1: when evaluation stops on a RuntimeError after outputs were produced,
\* the caller of Interpreter.execute (here through execute_cips) is still
\* handed the outputs, logs and memory accumulated before the failure.
C1_PartialResultsReturned ==
  (Executed /\ executed.outcome = "RuntimeError" /\ executed.s.outputs # <<>>)
    => /\ executed.ret.returned
       /\ executed.ret.outputs = executed.s.outputs
       /\ executed.ret.logs = executed.s.logs
       /\ executed.ret.memory = Memory_to_dict(executed.s.memory)

\* C5: parsing terminates on every token sequence: once the lexer has
\* produced tokens, parse_cips either returns a Program or raises ParseError.
C5_ParseTerminates ==
  (Parsed /\ parsed.outcome \notin {"LexerError", "ValueError"})
    => parsed.outcome \in {"Program", "ParseError"}

\* C6: the parser raises ParseError at the first token that cannot continue
\* the construct being parsed: when parse_cips returns a Program, no token
\* was consumed and passed over without becoming part of it.
C6_NoTokenSkipped ==
  (Parsed /\ parsed.outcome = "Program") => parsed.skipped = <<>>

(***************************************************************************)
(* C23: parse_genesis maps the five recognized keys onto the GenesisBlock  *)
(* record: root, created and author set the string fields of their names,  *)
(* axioms with a list value sets axioms, origin with a list value sets     *)
(* origin; any other key is consumed with its value and leaves the record  *)
(* unchanged, without raising.                                             *)
(***************************************************************************)
EmptyGenesis == GenesisBlock(1, "", <<>>)

\* the record the claim gives for a genesis block with the one field key: value
FieldSets(key, is_list) ==
  CASE key = "root" /\ ~is_list -> [EmptyGenesis EXCEPT !.root = "abc"]
    [] key = "created" /\ ~is_list -> [EmptyGenesis EXCEPT !.created = "abc"]
    [] key = "author" /\ ~is_list -> [EmptyGenesis EXCEPT !.author = "abc"]
    [] key = "axioms" /\ is_list -> [EmptyGenesis EXCEPT !.axioms = <<"abc">>]
    [] key = "origin" /\ is_list -> [EmptyGenesis EXCEPT !.origin = <<"abc">>]
    [] OTHER -> EmptyGenesis

\* the cases the claim speaks of: a string for a string field, a list for a
\* list field, anything for another key
FieldCase(key, is_list) ==
  \/ key \in {"root", "created", "author"} /\ ~is_list
  \/ key \in {"axioms", "origin"} /\ is_list
  \/ key \notin {"root", "created", "author", "axioms", "origin"}

C23_GenesisFieldsMapped ==
  \A key \in FieldKeys, is_list \in BOOLEAN :
    (/\ Parsed
     /\ source = GenesisField(key, IF is_list THEN W_list ELSE W_abc)
     /\ FieldCase(Join(key), is_list))
      => /\ parsed.outcome = "Program"
         /\ parsed.program.genesis = FieldSets(Join(key), is_list)

\* the program text of C7, with either membership glyph
TickSources == {GenesisValid \o ForEachTicks(member) : member \in {"$IN", "$HAS"}}

\* C7: the text  genesis{root "abc", required axiom}  forall x member <1,2,3>
\* flow emit("tick", x)  parses to one ForEach block over the three-item
\* array with the emit call as body; its termination and genesis proofs are
\* PROVEN; executing it emits tick 1, tick 2, tick 3 with iterations = 3.
C7_ForEachTicksScenario ==
  source \in TickSources =>
    /\ Parsed =>
         /\ parsed.outcome = "Program"
         /\ parsed.program.genesis.present
         /\ parsed.program.genesis.root = "abc"
         /\ Len(parsed.program.blocks) = 1
         /\ parsed.program.blocks[1].k = "ForEach"
         /\ parsed.program.blocks[1].variable = "x"
         /\ parsed.program.blocks[1].collection.k = "ArrayLiteral"
         /\ Len(parsed.program.blocks[1].collection.items) = 3
         /\ parsed.program.blocks[1].body.k = "FunctionCall"
         /\ parsed.program.blocks[1].body.name = "emit"
    /\ VerifiedSource =>
         /\ verified.outcome = "Report"
         /\ verified.report.proofs[1].result = "PROVEN"
         /\ verified.report.proofs[3].result = "PROVEN"
    /\ Executed =>
         /\ executed.outcome = "Result"
         /\ Emitted(executed.ret.outputs)
              = [i \in 1..3 |-> <<PyStr("tick"), PyInt(i)>>]
         /\ executed.ret.iterations = 3

(***************************************************************************)
(* C14: the source  conditional (c) flow A sequence B  parses to a         *)
(* Conditional with then-branch A and else-branch B, and its execution     *)
(* evaluates exactly one of them: A when c is truthy, B otherwise.  Here c *)
(* is 0 or 1, A is emit("a") and B is emit("b").                           *)
(***************************************************************************)
CondBlock == parsed.program.blocks[1]
EmitCall(node, name) ==
  /\ node.k = "FunctionCall"
  /\ node.name = "emit"
  /\ Len(node.args) = 1
  /\ node.args[1].k = "Literal"
  /\ node.args[1].value = PyStr(name)

Signals(outputs) == [i \in 1..Len(outputs) |-> outputs[i].entries[2].val]

C14_ConditionalBranches ==
  \A h \in Headers, c \in {"0", "1"} :
  source = h \o CondSource(c) =>
    /\ Parsed =>
          /\ parsed.outcome = "Program"
          /\ Len(parsed.program.blocks) = 1
          /\ CondBlock.k = "Conditional"
          /\ EmitCall(CondBlock.then_branch, "a")
          /\ EmitCall(CondBlock.else_branch, "b")
    /\ (Executed /\ executed.outcome = "Result") =>
          Signals(executed.ret.outputs)
            = <<IF c = "1" THEN PyStr("a") ELSE PyStr("b")>>

(***************************************************************************)
(* C15: Verifier.verify on a Program without a GenesisBlock always gives   *)
(* the genesis-presence proof VIOLATION with non-empty evidence (and so    *)
(* all_proven false): on a fresh Verifier, on one that has verified other  *)
(* programs before, and after an Interpreter has executed another program. *)
(***************************************************************************)
C15_NoGenesisAlwaysViolation ==
  (Verified /\ ~program.genesis.present) =>
    /\ GenesisProof.result = "VIOLATION"
    /\ GenesisProof.evidence # ""
    /\ ~report.all_proven

\* a Verifier that has verified before rejects a Program without genesis
\* after an Interpreter has executed an unrelated program successfully
C15_Witness ==
  /\ Verified
  /\ verifier.runs >= 2
  /\ ~program.genesis.present
  /\ outcome.returned
  /\ GenesisProof.result = "VIOLATION"
  /\ GenesisProof.evidence = "No genesis block found"

(***************************************************************************)
(* C16: run_program with verify_first = True runs the Interpreter only     *)
(* after verify_cips has returned a report whose three proofs are all      *)
(* PROVEN.  When a proof is not PROVEN it returns success, verified and    *)
(* executed all False with error the report's summary, the Interpreter is  *)
(* not run and the memory file is left as it was.                          *)
(***************************************************************************)
Ran == ran # NotRun
AllProven(rep) ==
  Len(rep.proofs) = 3 /\ \A i \in 1..3 : rep.proofs[i].result = "PROVEN"

C16_VerifiedBeforeExecuted ==
  (Ran /\ ran.verify_first) =>
    /\ (ran.interpreted \/ ran.result.executed \/ ran.file # ran.before)
          => (ran.outcome = "returned" /\ AllProven(ran.result.verification))
    /\ (ran.outcome = "returned" /\ ~AllProven(ran.result.verification)) =>
          /\ ~ran.result.success
          /\ ~ran.result.verified
          /\ ~ran.result.executed
          /\ ran.result.error = ErrorText("Verification", ran.result.verification.summary)
          /\ ~ran.result.exec.returned
          /\ ~ran.result.memory_persisted
          /\ ~ran.interpreted
          /\ ran.file = ran.before
          /\ memFile = ran.before

\* a program without genesis block was refused while a memory file existed
C16_Witness ==
  /\ Ran
  /\ ran.verify_first
  /\ ran.outcome = "returned"
  /\ ran.before.kind = "json"
  /\ Len(ran.result.verification.proofs) = 3
  /\ ran.result.verification.proofs[3].result = "VIOLATION"
  /\ ~ran.interpreted
  /\ memFile = ran.before

(***************************************************************************)
(* C17: tokenizing the version-like literal 3.8.0 succeeds, and the first  *)
(* token's value is the text '3.8.0' as a string; parse_cips tokenizes its *)
(* source first, so it does not leave with the tokenizer's exception.      *)
(***************************************************************************)
SemverSource == <<"3", ".", "8", ".", "0">>

C17_SemverIsString ==
  (source = SemverSource /\ Parsed) =>
    /\ parsed.outcome \notin {"ValueError", "LexerError"}
    /\ parsed.tokens # <<>>
    /\ parsed.tokens[1].value = PyStr("3.8.0")

(***************************************************************************)
(* C18: whenever the estimated token count of the transcript is at or      *)
(* above the critical threshold, 80% of CONTEXT_MAX, the hook answers      *)
(* every tool call other than AskUserQuestion and TodoWrite with           *)
(* permissionDecision 'deny', never with 'allow'.                          *)
(***************************************************************************)
Hooked_ToolCall == hookCall.called /\ hookCall.input.valid

AtCritical ==
  estimate_tokens_from_jsonl(hookCall.input.transcript) >= (CONTEXT_MAX * 80) \div 100

C18_CriticalAlwaysDenies ==
  (Hooked_ToolCall /\ AtCritical /\ hookCall.input.tool_name \notin ALLOWED_TOOLS)
    => hookCall.response.permissionDecision = "deny"

(***************************************************************************)
(* C27: the termination proof is sound for recursion: when the Verifier    *)
(* reports termination PROVEN for a Program, executing that Program never  *)
(* fails with the recursion-limit RuntimeError.                            *)
(***************************************************************************)
RecursionLimitHit ==
  interp.err.raised /\ interp.err.kind = "RuntimeError"
  /\ interp.err.msg = "Recursion limit exceeded"

C27_ProvenNeverRecursesUnboundedly ==
  (Verified /\ Called /\ TerminationProof.result = "PROVEN") => ~RecursionLimitHit

(***************************************************************************)
(* C28: the Verifier and the Interpreter agree on genesis validity: for a  *)
(* Program carrying a GenesisBlock, execute passes its genesis validation  *)
(* (raises no 'Genesis block missing ...') if and only if the Verifier's   *)
(* genesis-presence proof is PROVEN.                                       *)
(***************************************************************************)
GenesisRejected ==
  interp.err.raised
  /\ interp.err.msg \in {"Genesis block missing root",
                         "Genesis block missing Parfit Key axiom"}

C28_GenesisValidityAgrees ==
  (program.genesis.present /\ Verified /\ Called) =>
    (~GenesisRejected <=> GenesisProof.result = "PROVEN")

(***************************************************************************)
(* C29: the two verifiers agree: Verifier.verify and CIPSProver.verify     *)
(* give the same verdict, PROVEN or not, on each of termination, core      *)
(* immutability and genesis presence of one Program, and so the same       *)
(* overall pass or fail.                                                   *)
(***************************************************************************)
Proved == proved # NotProved

C29_VerifiersAgree ==
  (Verified /\ Proved) =>
    /\ \A i \in 1..3 :
         (report.proofs[i].result = "PROVEN") <=> (proved.proofs[i].status = "PROVEN")
    /\ report.all_proven <=> (proved.overall_status = "PROVEN")
====
